---- MODULE Spec2Model ----
(***************************************************************************)
(* A model of packr's index.js: the sandbox of user paths (isPathInside,   *)
(* resolveSafe), the merge of environment, options and config file into    *)
(* the resolved configuration (packr/userConfig), output normalisation     *)
(* (joinOut), the artifact file .packr-config.json and the worker process  *)
(* whose exit settles the promise packr() returns, the loader of the       *)
(* environment files (loadEnvFromFile, loadEnvFiles) and the CLI entry.    *)
(*                                                                         *)
(* A path text is a record [abs, segs]: whether the text starts with "/"   *)
(* and its "/"-separated segments, each segment a tuple of characters      *)
(* (empty segments are dropped, as path.resolve drops them).  The empty    *)
(* string is [abs |-> FALSE, segs |-> <<>>].                               *)
(***************************************************************************)
EXTENDS Integers, Sequences, FiniteSets, TLC

VARIABLES
    env,          \* process.env, as left by loadEnvFiles() at module load
    platform,     \* process.platform
    binaryExists, \* whether the worker executable exists next to index.js
    configFile,   \* the JSON content of the config file on disk
    artifact,     \* the content of .packr-config.json (NoFile until written)
    options,      \* per invocation: the options object packr() was called with
    ret,          \* per invocation: how the call to packr() ended
    resolved,     \* per invocation: userConfig and config, once computed
    promise,      \* per invocation: the state of the returned promise
    child,        \* per invocation: the worker process
    trace,        \* per invocation: the steps of packr() in the order they ran
    fnArgs,       \* arguments of the sandbox function under check
    fnResult,     \* its result
    envFiles,     \* the environment files on disk, by name
    loader,       \* loadEnvFiles(): its position and what it did so far
    cli           \* the CLI entry: its arguments, its position, the exit code

vars == <<env, platform, binaryExists, configFile, artifact, options, ret,
          resolved, promise, child, trace, fnArgs, fnResult, envFiles, loader, cli>>

----------------------------------------------------------------------------
(* Bounds *)

MaxSegs == 3        \* longest candidate path, in segments
MaxExitCode == 2    \* worker exit codes range over 0..MaxExitCode

----------------------------------------------------------------------------
(* Characters, segments and path texts *)

Dot == <<".">>
DotDot == <<".", ".">>
SegP == <<"p">>          \* the project directory
SegC == <<"c">>          \* a sub-directory holding a config file
SegD == <<"d">>          \* a directory name
SegX == <<"x">>          \* a directory outside the project
SegF == <<"f">>          \* a file name
SegG == <<"g">>          \* another file name
SegDDA == <<".", ".", "d">>   \* the name "..d": starts with two dots, is no traversal
SegBin == <<"b", "i", "n">>
SegPackr == <<"p", "a", "c", "k", "r">>
SegPackrExe == <<"p", "a", "c", "k", "r", ".", "e", "x", "e">>
SegArtifact == <<".", "p", "a", "c", "k", "r", "-", "c", "o", "n", "f", "i", "g", ".", "j", "s", "o", "n">>
SegJson == <<"p", "a", "c", "k", "r", ".", "j", "s", "o", "n">>
SegMissing == <<"n", "o", "n", "e", ".", "j", "s", "o", "n">>
SegM == <<"m">>          \* the directory index.js is installed in
SegDotJson == <<".", "p", "a", "c", "k", "r", ".", "j", "s", "o", "n">>
SegWatchFlag == <<"-", "-", "w", "a", "t", "c", "h">>

Rel(segs) == [abs |-> FALSE, segs |-> segs]
Abs(segs) == [abs |-> TRUE, segs |-> segs]
EmptyText == Rel(<<>>)

\* The characters of a path text: its segments joined with "/".
RECURSIVE JoinSegs(_)
JoinSegs(segs) ==
    IF segs = <<>> THEN <<>>
    ELSE IF Len(segs) = 1 THEN Head(segs)
    ELSE Head(segs) \o <<"/">> \o JoinSegs(Tail(segs))

PathString(p) == (IF p.abs THEN <<"/">> ELSE <<>>) \o JoinSegs(p.segs)

\* String.prototype.startsWith on character sequences.
StartsWith(str, prefix) ==
    /\ Len(str) >= Len(prefix)
    /\ SubSeq(str, 1, Len(prefix)) = prefix

\* normalizeString of node's path module, for an absolute path: "." is
\* dropped, ".." removes the segment before it and is dropped at the root.
RECURSIVE NormInto(_, _)
NormInto(acc, segs) ==
    IF segs = <<>> THEN acc
    ELSE LET s == Head(segs) IN
         IF s = Dot THEN NormInto(acc, Tail(segs))
         ELSE IF s = DotDot
              THEN NormInto(IF acc = <<>> THEN acc ELSE SubSeq(acc, 1, Len(acc) - 1),
                            Tail(segs))
              ELSE NormInto(Append(acc, s), Tail(segs))

Normalize(segs) == NormInto(<<>>, segs)

\* path.resolve(a, b) in working directory cwd: arguments are taken from the
\* right until the text is absolute, the working directory last.
PathResolve(cwd, a, b) ==
    IF b.abs THEN Abs(Normalize(b.segs))
    ELSE IF a.abs THEN Abs(Normalize(a.segs \o b.segs))
    ELSE Abs(Normalize(cwd.segs \o a.segs \o b.segs))

\* path.resolve(a)
PathResolve1(cwd, a) == PathResolve(cwd, EmptyText, a)

\* Length of the longest common prefix of two segment lists.
RECURSIVE CommonLen(_, _)
CommonLen(s, t) ==
    IF s = <<>> \/ t = <<>> \/ Head(s) # Head(t) THEN 0
    ELSE 1 + CommonLen(Tail(s), Tail(t))

\* path.relative(from, to) for two absolute normalised paths: one ".." for
\* each segment of from below the common prefix, then the rest of to.
PathRelative(from, to) ==
    LET n == CommonLen(from.segs, to.segs)
        ups == [k \in 1..(Len(from.segs) - n) |-> DotDot]
    IN Rel(ups \o SubSeq(to.segs, n + 1, Len(to.segs)))

\* path.isAbsolute
IsAbsolute(p) == p.abs

\* path.dirname and path.basename of an absolute normalised path
PathDirname(p) ==
    IF p.segs = <<>> THEN p ELSE Abs(SubSeq(p.segs, 1, Len(p.segs) - 1))

PathBasename(p) ==
    IF p.segs = <<>> THEN <<>> ELSE <<p.segs[Len(p.segs)]>>

\* path.join(dir, base) of an absolute dir and the segments base
PathJoin(dir, base) == Abs(Normalize(dir.segs \o base))

----------------------------------------------------------------------------
(* The sandbox *)

\* A mutation of isPathInside: only the ".." test on the relative path's
\* first segment as a whole, missing a traversal of two or more levels.
IsPathInsideExactUp(childPath, parentPath) ==
    LET relative == PathRelative(parentPath, childPath)
    IN PathString(relative) # DotDot /\ ~IsAbsolute(relative)

isPathInside(childPath, parentPath) ==
    LET relative == PathRelative(parentPath, childPath)
    IN ~StartsWith(PathString(relative), DotDot) /\ ~IsAbsolute(relative)

\* PROJECT_ROOT: process.cwd() when the module was loaded
PROJECT_ROOT == Abs(<<SegP>>)

\* The working directory of the process
Cwd == PROJECT_ROOT

Ok(v) == [ok |-> TRUE, value |-> v]
Throw(e) == [ok |-> FALSE, error |-> e]

UnsafePathError(p) == [kind |-> "UnsafePath", path |-> p]

\* A mutation of resolveSafe: the resolved path is returned unchecked.
ResolveUnchecked(p, baseDir) ==
    Ok(PathResolve(Cwd, baseDir, p))

resolveSafe(p, baseDir) ==
    LET r == PathResolve(Cwd, baseDir, p)
    IN IF ~isPathInside(r, PROJECT_ROOT) THEN Throw(UnsafePathError(p)) ELSE Ok(r)

----------------------------------------------------------------------------
(* JavaScript values *)

Undef == [t |-> "undefined"]
Null == [t |-> "null"]
Bool(b) == [t |-> "boolean", b |-> b]
Num(n) == [t |-> "number", n |-> n]
Str(s) == [t |-> "string", s |-> s]              \* a plain text
PathText(p) == [t |-> "string", path |-> p]      \* a text read as a path
Csv(parts) == [t |-> "string", parts |-> parts]  \* a text, as split(',') cuts it
Arr(items) == [t |-> "array", items |-> items]

True == Bool(TRUE)
False == Bool(FALSE)

\* ToBoolean: undefined, null, false and the empty string are falsy.
Truthy(v) ==
    CASE v.t = "undefined" -> FALSE
      [] v.t = "null" -> FALSE
      [] v.t = "boolean" -> v.b
      [] v.t = "number" -> v.n # 0
      [] v.t = "string" ->
            IF "s" \in DOMAIN v THEN v.s # ""
            ELSE IF "path" \in DOMAIN v THEN v.path # EmptyText
            ELSE v.parts # <<"">>
      [] OTHER -> TRUE

JsOr(a, b) == IF Truthy(a) THEN a ELSE b      \* a || b
JsAnd(a, b) == IF Truthy(a) THEN b ELSE a     \* a && b
StrictEq(a, b) == Bool(a = b)                 \* a === b
StrictNe(a, b) == Bool(a # b)                 \* a !== b
Cond(c, a, b) == IF Truthy(c) THEN a ELSE b   \* c ? a : b

----------------------------------------------------------------------------
(* The names of the three sources *)

EnvVars == {
    "PACKR_SCSS_INPUT", "PACKR_SCSS_OUTPUT", "PACKR_JS_INPUT", "PACKR_JS_OUTPUT",
    "PACKR_CSS_DESTINATION", "PACKR_JS_DESTINATION",
    "PACKR_MINIFY", "PACKR_MINIFY_JS", "PACKR_MINIFY_CSS",
    "PACKR_UGLIFY_MANGLE", "PACKR_UGLIFY_KEEP_FNAMES", "PACKR_UGLIFY_KEEP_CLASSNAMES",
    "PACKR_UGLIFY_RESERVED", "PACKR_TARGET", "PACKR_VERBOSE", "PACKR_SOURCEMAP",
    "PACKR_FORMAT", "PACKR_ESLINT", "PACKR_ESLINT_CONFIG", "NODE_ENV" }

\* The keys packr() reads from options (uglify's members written uglify.<key>)
ReadOptionKeys == {
    "config", "watch", "scssInput", "scssOutput", "jsInput", "jsOutput",
    "cssDestination", "jsDestination", "minify", "minifyJs", "minifyCss",
    "uglify.mangle", "uglify.keepFnames", "uglify.keepClassnames", "uglify.reserved",
    "target", "verbose", "sourcemap", "format" }

\* The keys of the PackrOptions type, of the README and of the config file
DocumentedKeys == {
    "scss_input", "scss_output", "js_input", "js_output",
    "css_destination", "js_destination", "minify", "minify_js", "minify_css",
    "uglify.mangle", "uglify.keep_fnames", "uglify.keep_classnames", "uglify.reserved",
    "target", "watch", "verbose", "sourcemap", "format", "eslint", "eslint_config" }

OptionKeys == ReadOptionKeys \cup DocumentedKeys
FileKeys == DocumentedKeys

NoEnv == [v \in EnvVars |-> Undef]
NoOptions == [k \in OptionKeys |-> Undef]
NoFileKeys == [k \in FileKeys |-> Undef]

----------------------------------------------------------------------------
(* packr(): the merge of environment, options and config file *)

\* uglify.reserved before .split(','): the first truthy source, else ''
ReservedSource(e, o, cf) ==
    JsOr(JsOr(JsOr(e["PACKR_UGLIFY_RESERVED"], o["uglify.reserved"]),
              cf["uglify.reserved"]), Csv(<<"">>))

\* .split(',') exists on strings only
ReservedThrows(e, o, cf) == ReservedSource(e, o, cf).t # "string"

\* .split(',').filter(Boolean)
SplitFilter(src) == SelectSeq(src.parts, LAMBDA n : n # "")

\* A mutation of the precedence: options before the environment.
FirstTruthyOptionsFirst(ev, ov, fv) == JsOr(JsOr(ov, ev), fv)

\* env || options || file: the six path settings
FirstTruthy(ev, ov, fv) == JsOr(JsOr(ev, ov), fv)

\* env === 'true' || (env !== 'false' && (options !== undefined ? options :
\* file !== undefined ? file : true)): minify, minify_js, minify_css, mangle
EnvTriState(ev, ov, fv) ==
    JsOr(StrictEq(ev, Str("true")),
         JsAnd(StrictNe(ev, Str("false")),
               Cond(StrictNe(ov, Undef), ov, Cond(StrictNe(fv, Undef), fv, True))))

\* env === 'true' || (options !== undefined ? options : file !== undefined ?
\* file : false): uglify.keep_fnames, uglify.keep_classnames
EnvTrueOr(ev, ov, fv) ==
    JsOr(StrictEq(ev, Str("true")),
         Cond(StrictNe(ov, Undef), ov, Cond(StrictNe(fv, Undef), fv, False)))

\* env || options || file || default: target, format
FirstTruthyOr(ev, ov, fv, dflt) == JsOr(JsOr(JsOr(ev, ov), fv), dflt)

UserConfig(e, o, cf) ==
    [ scss_input |-> FirstTruthy(e["PACKR_SCSS_INPUT"], o["scssInput"], cf["scss_input"]),
      scss_output |-> FirstTruthy(e["PACKR_SCSS_OUTPUT"], o["scssOutput"], cf["scss_output"]),
      js_input |-> FirstTruthy(e["PACKR_JS_INPUT"], o["jsInput"], cf["js_input"]),
      js_output |-> FirstTruthy(e["PACKR_JS_OUTPUT"], o["jsOutput"], cf["js_output"]),
      css_destination |->
          FirstTruthy(e["PACKR_CSS_DESTINATION"], o["cssDestination"], cf["css_destination"]),
      js_destination |->
          FirstTruthy(e["PACKR_JS_DESTINATION"], o["jsDestination"], cf["js_destination"]),
      minify |-> EnvTriState(e["PACKR_MINIFY"], o["minify"], cf["minify"]),
      minify_js |-> EnvTriState(e["PACKR_MINIFY_JS"], o["minifyJs"], cf["minify_js"]),
      minify_css |-> EnvTriState(e["PACKR_MINIFY_CSS"], o["minifyCss"], cf["minify_css"]),
      uglify |->
        [ mangle |->
              EnvTriState(e["PACKR_UGLIFY_MANGLE"], o["uglify.mangle"], cf["uglify.mangle"]),
          keep_fnames |->
              EnvTrueOr(e["PACKR_UGLIFY_KEEP_FNAMES"], o["uglify.keepFnames"],
                        cf["uglify.keep_fnames"]),
          keep_classnames |->
              EnvTrueOr(e["PACKR_UGLIFY_KEEP_CLASSNAMES"], o["uglify.keepClassnames"],
                        cf["uglify.keep_classnames"]),
          reserved |->
              IF ReservedThrows(e, o, cf) THEN <<>>
              ELSE SplitFilter(ReservedSource(e, o, cf)) ],
      target |-> FirstTruthyOr(e["PACKR_TARGET"], o["target"], cf["target"], Str("es2020")),
      verbose |->
          JsOr(JsOr(JsOr(StrictEq(e["PACKR_VERBOSE"], Str("true")), o["verbose"]),
                    cf["verbose"]), False),
      sourcemap |->
          Cond(StrictEq(e["PACKR_SOURCEMAP"], Str("true")), True,
               Cond(StrictEq(e["PACKR_SOURCEMAP"], Str("false")), False,
                    Cond(StrictNe(o["sourcemap"], Undef), o["sourcemap"],
                         Cond(StrictNe(cf["sourcemap"], Undef), cf["sourcemap"], False)))),
      format |-> FirstTruthyOr(e["PACKR_FORMAT"], o["format"], cf["format"], Str("iife")),
      eslint |-> JsOr(JsOr(StrictEq(e["PACKR_ESLINT"], Str("true")), cf["eslint"]), False),
      eslint_config |-> JsOr(e["PACKR_ESLINT_CONFIG"], cf["eslint_config"]) ]

\* userConfig[key], uglify's members written uglify.<key>
Setting(uc, key) ==
    CASE key = "scss_input" -> uc.scss_input
      [] key = "scss_output" -> uc.scss_output
      [] key = "js_input" -> uc.js_input
      [] key = "js_output" -> uc.js_output
      [] key = "css_destination" -> uc.css_destination
      [] key = "js_destination" -> uc.js_destination
      [] key = "minify" -> uc.minify
      [] key = "minify_js" -> uc.minify_js
      [] key = "minify_css" -> uc.minify_css
      [] key = "uglify.mangle" -> uc.uglify.mangle
      [] key = "uglify.keep_fnames" -> uc.uglify.keep_fnames
      [] key = "uglify.keep_classnames" -> uc.uglify.keep_classnames
      [] key = "target" -> uc.target
      [] key = "verbose" -> uc.verbose
      [] key = "sourcemap" -> uc.sourcemap
      [] key = "format" -> uc.format
      [] key = "eslint" -> uc.eslint
      [] key = "eslint_config" -> uc.eslint_config

----------------------------------------------------------------------------
(* packr(): config file, validation, sandboxing, normalisation *)

\* The config files that exist and parse: /p/packr.json, /p/c/packr.json and,
\* outside the project, /x/packr.json.
ReadableConfigs ==
    { Abs(<<SegP, SegJson>>), Abs(<<SegP, SegC, SegJson>>), Abs(<<SegX, SegJson>>) }

ConfigLoadError == [kind |-> "ConfigLoad"]

\* if (options.config) { configFromFile = JSON.parse(readFileSync(...));
\* configDir = path.dirname(path.resolve(options.config)) }
LoadConfig(o, onDisk) ==
    IF ~Truthy(o["config"])
    THEN Ok([configFromFile |-> NoFileKeys, configDir |-> PROJECT_ROOT])
    ELSE LET at == PathResolve1(Cwd, o["config"].path) IN
         IF at \in ReadableConfigs
         THEN Ok([configFromFile |-> onDisk, configDir |-> PathDirname(at)])
         ELSE Throw(ConfigLoadError)

RequiredKeys == <<"scss_input", "scss_output", "js_input", "js_output">>

MissingRequiredError(key) == [kind |-> "MissingRequired", key |-> key]

\* A mutation of the validation loop: it reports the first required key,
\* whichever one is missing.
FirstMissingAlwaysFirstKey(uc) ==
    IF \E n \in 1..Len(RequiredKeys) : ~Truthy(Setting(uc, RequiredKeys[n]))
    THEN 1 ELSE 0

\* for (const key of required) if (!userConfig[key]) throw ...: the index of
\* the first missing key, 0 when none is missing
FirstMissing(uc) ==
    IF \E n \in 1..Len(RequiredKeys) : ~Truthy(Setting(uc, RequiredKeys[n]))
    THEN CHOOSE n \in 1..Len(RequiredKeys) :
            /\ ~Truthy(Setting(uc, RequiredKeys[n]))
            /\ \A m \in 1..(n - 1) : Truthy(Setting(uc, RequiredKeys[m]))
    ELSE 0

\* const config = {...userConfig, scss_input: resolveSafe(...), ...}: the
\* property values are evaluated in order and the first unsafe one throws.
ConvertPaths(uc, configDir) ==
    LET r1 == resolveSafe(uc.scss_input.path, configDir)
        r2 == resolveSafe(uc.scss_output.path, configDir)
        r3 == resolveSafe(uc.js_input.path, configDir)
        r4 == resolveSafe(uc.js_output.path, configDir)
        r5 == IF Truthy(uc.css_destination)
              THEN resolveSafe(uc.css_destination.path, configDir) ELSE Ok(Undef)
        r6 == IF Truthy(uc.js_destination)
              THEN resolveSafe(uc.js_destination.path, configDir) ELSE Ok(Undef)
        opt(r) == IF r.value = Undef THEN Undef ELSE PathText(r.value)
    IN IF ~r1.ok THEN r1
       ELSE IF ~r2.ok THEN r2
       ELSE IF ~r3.ok THEN r3
       ELSE IF ~r4.ok THEN r4
       ELSE IF ~r5.ok THEN r5
       ELSE IF ~r6.ok THEN r6
       ELSE Ok([uc EXCEPT !.scss_input = PathText(r1.value),
                          !.scss_output = PathText(r2.value),
                          !.js_input = PathText(r3.value),
                          !.js_output = PathText(r4.value),
                          !.css_destination = opt(r5),
                          !.js_destination = opt(r6)])

\* A mutation of joinOut: the destination override is dropped.
JoinOutIgnoresDest(outFile, destDir, baseDir) ==
    PathText(PathResolve(Cwd, baseDir, outFile.path))

joinOut(outFile, destDir, baseDir) ==
    LET outAbs == PathResolve(Cwd, baseDir, outFile.path)
        outBase == PathBasename(outAbs)
        outDir == IF Truthy(destDir) THEN PathResolve(Cwd, baseDir, destDir.path)
                  ELSE PathDirname(outAbs)
    IN PathText(PathJoin(outDir, outBase))

\* The object written to .packr-config.json
ArtifactOf(config, configDir) ==
    [ scss_input |-> config.scss_input,
      scss_output |-> joinOut(config.scss_output, config.css_destination, configDir),
      js_input |-> config.js_input,
      js_output |-> joinOut(config.js_output, config.js_destination, configDir),
      minify |-> config.minify,
      minify_js |-> config.minify_js,
      minify_css |-> config.minify_css,
      uglify |-> config.uglify,
      target |-> config.target,
      verbose |-> config.verbose,
      sourcemap |-> config.sourcemap,
      format |-> config.format ]

----------------------------------------------------------------------------
(* packr(): artifact, worker executable, spawn *)

\* __dirname of index.js
DirName == Abs(<<SegM>>)

\* A mutation of the executable's name: packr on every platform.
BinaryPathNoExe(plat) == PathJoin(DirName, <<SegBin, SegPackr>>)

\* path.join(__dirname, 'bin', process.platform === 'win32' ? 'packr.exe' : 'packr')
BinaryPath(plat) ==
    PathJoin(DirName, <<SegBin, IF plat = "win32" THEN SegPackrExe ELSE SegPackr>>)

\* path.resolve('.packr-config.json')
ConfigPath == PathResolve1(Cwd, Rel(<<SegArtifact>>))

BinaryNotFoundError(plat) ==
    [kind |-> "BinaryNotFound", path |-> BinaryPath(plat),
     hint |-> "Please run 'npm run build' first."]

TypeError == [kind |-> "TypeError"]
ExitError(code) == [kind |-> "Exit", code |-> code]
SpawnError == [kind |-> "Spawn", code |-> "ENOENT"]

\* A mutation of the argument list: --watch whenever the options give a watch
\* key, whatever its value.
WorkerArgsWatchKey(o) ==
    <<PathText(ConfigPath)>> \o (IF o["watch"] # Undef THEN <<Str("--watch")>> ELSE <<>>)

\* const args = [configPath]; if (options.watch) args.push('--watch')
WorkerArgs(o) ==
    <<PathText(ConfigPath)>> \o (IF Truthy(o["watch"]) THEN <<Str("--watch")>> ELSE <<>>)

\* env: {...process.env, NODE_ENV: process.env.NODE_ENV || 'production'}
WorkerEnv(e) == [e EXCEPT !["NODE_ENV"] = JsOr(e["NODE_ENV"], Str("production"))]

NoError == [kind |-> "none"]
NoFile == [exists |-> FALSE]
NoChild == [state |-> "none"]
NoValue == [given |-> FALSE]

\* The synchronous body of packr(options) in environment e, with the config
\* file content onDisk: what it throws or returns, what it resolved, what it
\* writes and what it spawns, and the steps it completed, in order.
PackrRun(e, o, onDisk, binEx, plat) ==
    LET loaded == LoadConfig(o, onDisk)
        base == [thrown |-> NoError, rejected |-> NoError, userConfig |-> NoValue,
                 config |-> NoValue, configDir |-> NoValue, write |-> NoFile,
                 spawn |-> NoChild, steps |-> <<>>]
    IN
    IF ~loaded.ok THEN [base EXCEPT !.thrown = loaded.error]
    ELSE
    LET cf == loaded.value.configFromFile
        dir == loaded.value.configDir
    IN
    IF ReservedThrows(e, o, cf)
    THEN [base EXCEPT !.thrown = TypeError, !.configDir = dir, !.steps = <<"load">>]
    ELSE
    LET uc == UserConfig(e, o, cf)
        miss == FirstMissing(uc)
    IN
    IF miss # 0
    THEN [base EXCEPT !.thrown = MissingRequiredError(RequiredKeys[miss]),
                      !.userConfig = uc, !.configDir = dir, !.steps = <<"load", "merge">>]
    ELSE
    LET conv == ConvertPaths(uc, dir) IN
    IF ~conv.ok
    THEN [base EXCEPT !.thrown = conv.error, !.userConfig = uc, !.configDir = dir,
                      !.steps = <<"load", "merge", "validate">>]
    ELSE
    LET done == [base EXCEPT !.userConfig = uc, !.config = conv.value, !.configDir = dir,
                             !.write = [exists |-> TRUE,
                                        content |-> ArtifactOf(conv.value, dir)]]
    IN
    IF ~binEx
    THEN [done EXCEPT !.rejected = BinaryNotFoundError(plat),
                      !.steps = <<"load", "merge", "validate", "sandbox", "normalize",
                                  "write">>]
    ELSE [done EXCEPT !.spawn = [state |-> "running", file |-> BinaryPath(plat),
                                 args |-> WorkerArgs(o), env |-> WorkerEnv(e),
                                 stdio |-> "inherit", shell |-> (plat = "win32")],
                      !.steps = <<"load", "merge", "validate", "sandbox", "normalize",
                                  "write", "locate", "spawn">>]

----------------------------------------------------------------------------
(* Promise settlement: the first resolve() or reject() wins *)

Pending == [state |-> "pending"]
NoPromise == [state |-> "none"]

\* A mutation: reject() settles again a promise that was already settled.
PromiseRejectAgain(p, reason) == [state |-> "rejected", reason |-> reason]

PromiseResolve(p) == IF p.state = "pending" THEN [state |-> "fulfilled"] ELSE p
PromiseReject(p, reason) ==
    IF p.state = "pending" THEN [state |-> "rejected", reason |-> reason] ELSE p

----------------------------------------------------------------------------
(* Texts of environment files: a text is a tuple of characters *)

Upper == <<"A", "B", "C", "D", "E", "F", "G", "H", "I", "J", "K", "L", "M",
           "N", "O", "P", "Q", "R", "S", "T", "U", "V", "W", "X", "Y", "Z">>
Lower == <<"a", "b", "c", "d", "e", "f", "g", "h", "i", "j", "k", "l", "m",
           "n", "o", "p", "q", "r", "s", "t", "u", "v", "w", "x", "y", "z">>

\* The /i flag of a regular expression: letters compare in lower case.
LowerChar(c) ==
    IF \E n \in 1..Len(Upper) : Upper[n] = c
    THEN Lower[CHOOSE n \in 1..Len(Upper) : Upper[n] = c]
    ELSE c

LowerText(s) == [n \in 1..Len(s) |-> LowerChar(s[n])]

\* The white space String.prototype.trim removes
WhiteSpace == {" ", "\t", "\r"}

RECURSIVE TrimStart(_)
TrimStart(s) ==
    IF s # <<>> /\ Head(s) \in WhiteSpace THEN TrimStart(Tail(s)) ELSE s

RECURSIVE TrimEnd(_)
TrimEnd(s) ==
    IF s # <<>> /\ s[Len(s)] \in WhiteSpace THEN TrimEnd(SubSeq(s, 1, Len(s) - 1)) ELSE s

\* String.prototype.trim
Trim(s) == TrimEnd(TrimStart(s))

\* A regular expression that is a plain text, unanchored: pat occurs in s.
Contains(s, pat) ==
    \E k \in 0..(Len(s) - Len(pat)) : SubSeq(s, k + 1, k + Len(pat)) = pat

\* String.prototype.indexOf for one character, counted from 1; 0 when absent
IndexOf(s, c) ==
    IF \E n \in 1..Len(s) : s[n] = c
    THEN CHOOSE n \in 1..Len(s) : s[n] = c /\ \A m \in 1..(n - 1) : s[m] # c
    ELSE 0

\* const [key, ...rest] = trimmed.split('='): the text before the first "="
SplitKey(trimmed) ==
    LET n == IndexOf(trimmed, "=")
    IN IF n = 0 THEN trimmed ELSE SubSeq(trimmed, 1, n - 1)

\* rest.join('='): the text after the first "=", empty when there is none
SplitRest(trimmed) ==
    LET n == IndexOf(trimmed, "=")
    IN IF n = 0 THEN <<>> ELSE SubSeq(trimmed, n + 1, Len(trimmed))

Quotes == {"\"", "'"}

\* .replace(/^["']|["']$/g, ''): one quote off the front, one off the end
StripQuotes(v) ==
    LET front == IF v # <<>> /\ Head(v) \in Quotes THEN Tail(v) ELSE v
    IN IF front # <<>> /\ front[Len(front)] \in Quotes
       THEN SubSeq(front, 1, Len(front) - 1) ELSE front

\* const value = rest.join('=').trim().replace(/^["']|["']$/g, '')
ParseValue(trimmed) == StripQuotes(Trim(SplitRest(trimmed)))

----------------------------------------------------------------------------
(* Names and texts the environment loader knows *)

NameNodeEnv == <<"N", "O", "D", "E", "_", "E", "N", "V">>   \* the runtime-mode variable
NameSourcemap == <<"P", "A", "C", "K", "R", "_", "S", "O", "U", "R", "C", "E", "M", "A", "P">>
NameScssInput == <<"P", "A", "C", "K", "R", "_", "S", "C", "S", "S", "_", "I", "N", "P", "U", "T">>
NameScssOutput == <<"P", "A", "C", "K", "R", "_", "S", "C", "S", "S", "_", "O", "U", "T", "P", "U", "T">>
NameJsInput == <<"P", "A", "C", "K", "R", "_", "J", "S", "_", "I", "N", "P", "U", "T">>
NameJsOutput == <<"P", "A", "C", "K", "R", "_", "J", "S", "_", "O", "U", "T", "P", "U", "T">>
NameFoo == <<"F", "O", "O">>   \* a variable packr does not read
NamePackrApiKey == <<"P", "A", "C", "K", "R", "_", "A", "P", "I", "_", "K", "E", "Y">>   \* a secret under the PACKR_ prefix
NameApiKey == <<"A", "P", "I", "_", "K", "E", "Y">>   \* a secret without the prefix
TxtProduction == <<"p", "r", "o", "d", "u", "c", "t", "i", "o", "n">>
TxtDevelopment == <<"d", "e", "v", "e", "l", "o", "p", "m", "e", "n", "t">>
TxtStaging == <<"s", "t", "a", "g", "i", "n", "g">>
TxtPackrPrefix == <<"P", "A", "C", "K", "R", "_">>
TxtEnvFile == <<".", "e", "n", "v">>   \* the default filepath of loadEnvFromFile
TxtEnvLocal == <<".", "e", "n", "v", "-", "l", "o", "c", "a", "l">>
TxtEnvDash == <<".", "e", "n", "v", "-">>   \* `.env-${nodeEnv}`
TxtMask == <<"*", "*", "*", "*", "*", "*", "*", "*">>   \* '*'.repeat(8)

----------------------------------------------------------------------------
(* loadEnvFromFile *)

\* process.env as the loader sees it: a function from the names that are
\* defined to their values, names and values being texts.
EnvHas(e, key) == key \in DOMAIN e

\* process.env[key] = value
EnvSet(e, key, value) ==
    [n \in DOMAIN e \cup {key} |-> IF n = key THEN value ELSE e[n]]

\* !process.env[key]: undefined or the empty text
EnvFalsy(e, key) == key \notin DOMAIN e \/ e[key] = <<>>

\* process.env.NODE_ENV === 'production'
InProduction(e) == NameNodeEnv \in DOMAIN e /\ e[NameNodeEnv] = TxtProduction

\* stats.mode & 0o777 of a file only its owner reads and writes: 0o600
OwnerOnly == 384

InsecurePermissionsError(mode, filepath) ==
    [kind |-> "InsecurePermissions", mode |-> mode, file |-> filepath]

\* ErrorHandler.handleError: what it prints before it throws the error
HandleErrorLog(e, error, context) ==
    IF InProduction(e)
    THEN <<[level |-> "error", context |-> context, error |-> error]>>
    ELSE <<[level |-> "error", context |-> context, error |-> error],
           [level |-> "debug", context |-> "Stack trace:", error |-> error]>>

StartsWithAny(s, pats) == \E q \in pats : StartsWith(s, q)

\* sensitivePatterns.some(pattern => pattern.test(key.trim()))
isSensitive(key) ==
    LET k == LowerText(key) IN
    \/ StartsWithAny(k, { <<"a", "p", "i", "_", "k", "e", "y">>, <<"a", "p", "i", "-", "k", "e", "y">>, <<"a", "p", "i", "k", "e", "y">> })
    \/ StartsWithAny(k, { <<"s", "e", "c", "r", "e", "t", "_", "k", "e", "y">>, <<"s", "e", "c", "r", "e", "t", "-", "k", "e", "y">>, <<"s", "e", "c", "r", "e", "t", "k", "e", "y">> })
    \/ StartsWithAny(k, 
                        { <<"a", "c", "c", "e", "s", "s", "_", "t", "o", "k", "e", "n">>, <<"a", "c", "c", "e", "s", "s", "-", "t", "o", "k", "e", "n">>, <<"a", "c", "c", "e", "s", "s", "t", "o", "k", "e", "n">> })
    \/ StartsWithAny(k, 
                        { <<"p", "r", "i", "v", "a", "t", "e", "_", "k", "e", "y">>, <<"p", "r", "i", "v", "a", "t", "e", "-", "k", "e", "y">>, <<"p", "r", "i", "v", "a", "t", "e", "k", "e", "y">> })
    \/ Contains(k, <<"p", "a", "s", "s", "w", "o", "r", "d">>)
    \/ Contains(k, <<"s", "e", "c", "r", "e", "t">>)

\* value.length < 16 || /^(test|example|dummy)/i.test(value)
WeakValue(value) ==
    \/ Len(value) < 16
    \/ StartsWithAny(LowerText(value), 
                        { <<"t", "e", "s", "t">>, <<"e", "x", "a", "m", "p", "l", "e">>, <<"d", "u", "m", "m", "y">> })

\* The for loop over the lines of a file; st holds process.env and what was
\* printed so far.
RECURSIVE LoadLines(_, _, _, _)
LoadLines(st, lines, filepath, override) ==
    IF lines = <<>> THEN st
    ELSE
    LET trimmed == Trim(Head(lines))
        key == SplitKey(trimmed)
        value == ParseValue(trimmed)
        sens == isSensitive(Trim(key)) /\ Len(value) > 0
        warn == IF sens /\ WeakValue(value)
                THEN <<[level |-> "warn", key |-> Trim(key), file |-> filepath]>>
                ELSE <<>>
        log == IF sens /\ InProduction(st.env)
               THEN <<[level |-> "log", key |-> Trim(key), value |-> TxtMask]>>
               ELSE <<>>
        next == IF trimmed = <<>> \/ Head(trimmed) = "#" THEN st
                ELSE [env |-> IF override \/ ~EnvHas(st.env, key)
                              THEN EnvSet(st.env, Trim(key), value) ELSE st.env,
                      console |-> st.console \o warn \o log]
    IN LoadLines(next, Tail(lines), filepath, override)

\* loadEnvFromFile(filepath, override) with process.env = e and the files
\* disk: the environment it leaves, what it throws and prints, and whether
\* the file's lines were read.
loadEnvFromFile(e, disk, filepath, override) ==
    IF filepath \notin DOMAIN disk
    THEN [env |-> e, thrown |-> NoError, console |-> <<>>, read |-> FALSE]
    ELSE
    LET mode == disk[filepath].mode
        err == InsecurePermissionsError(mode, filepath)
    IN IF mode # OwnerOnly /\ InProduction(e)
       THEN [env |-> e, thrown |-> err,
             console |-> HandleErrorLog(e, err, "Security Warning")
                         \o HandleErrorLog(e, err, "File Permission Check Failed"),
             read |-> FALSE]
       ELSE LET st == LoadLines([env |-> e, console |-> <<>>], disk[filepath].lines,
                                filepath, override)
            IN [env |-> st.env, thrown |-> NoError, console |-> st.console,
                read |-> TRUE]

----------------------------------------------------------------------------
(* joinOut applied, and applied again to its own result *)

\* normalized = joinOut(outFile, destDir, baseDir)
ApplyJoinOut ==
    /\ fnResult = NoValue
    /\ fnResult' = [once |-> joinOut(fnArgs.outFile, fnArgs.destDir, fnArgs.baseDir)]
    /\ UNCHANGED <<env, platform, binaryExists, configFile, artifact, options, ret,
                   resolved, promise, child, trace, fnArgs, envFiles, loader, cli>>

\* joinOut(normalized, destDir, baseDir)
ApplyJoinOutAgain ==
    /\ fnResult # NoValue
    /\ DOMAIN fnResult = {"once"}
    /\ fnResult' = [once |-> fnResult.once,
                    twice |-> joinOut(fnResult.once, fnArgs.destDir, fnArgs.baseDir)]
    /\ UNCHANGED <<env, platform, binaryExists, configFile, artifact, options, ret,
                   resolved, promise, child, trace, fnArgs, envFiles, loader, cli>>

----------------------------------------------------------------------------
(* ErrorHandler: masking, formatting, and what the callers of packr() print *)

Digits == <<"0", "1", "2", "3", "4", "5", "6", "7", "8", "9">>

\* [a-zA-Z0-9]
IsAlnum(c) ==
    \/ \E n \in 1..Len(Upper) : Upper[n] = c \/ Lower[n] = c
    \/ \E n \in 1..Len(Digits) : Digits[n] = c

\* {32,}: the shortest run of alphanumerics that is masked
MinRun == 32

TxtRedacted == <<"[", "R", "E", "D", "A", "C", "T", "E", "D", "]">>
TxtKeyEq == <<"k", "e", "y", "=">>
TxtTokenEq == <<"t", "o", "k", "e", "n", "=">>
TxtSecretEq == <<"s", "e", "c", "r", "e", "t", "=">>
TxtPackrError == <<"P", "a", "c", "k", "r", " ", "E", "r", "r", "o", "r">>
TxtErrorReadingConfig ==
    <<"E", "r", "r", "o", "r", " ", "r", "e", "a", "d", "i", "n", "g", " ",
      "c", "o", "n", "f", "i", "g", ":", " ">>
TxtErrorColon == <<"E", "r", "r", "o", "r", ":", " ">>

\* The length of the run of alphanumerics s starts with
RECURSIVE RunLen(_)
RunLen(s) == IF s = <<>> \/ ~IsAlnum(Head(s)) THEN 0 ELSE 1 + RunLen(Tail(s))

\* .replace(/[a-zA-Z0-9]{32,}/g, '[REDACTED]'): every maximal run of 32 or
\* more alphanumerics is replaced as a whole.
RECURSIVE ReplaceRuns(_)
ReplaceRuns(s) ==
    IF s = <<>> THEN <<>>
    ELSE LET n == RunLen(s) IN
         IF n >= MinRun
         THEN TxtRedacted \o ReplaceRuns(SubSeq(s, n + 1, Len(s)))
         ELSE IF n > 0
         THEN SubSeq(s, 1, n) \o ReplaceRuns(SubSeq(s, n + 1, Len(s)))
         ELSE <<Head(s)>> \o ReplaceRuns(Tail(s))

\* \s of a regular expression, as far as the texts here go
RegexSpace == WhiteSpace \cup {"\n"}

\* ([^&\s]+): the length of the value s starts with
RECURSIVE ValueLen(_)
ValueLen(s) ==
    IF s = <<>> \/ Head(s) = "&" \/ Head(s) \in RegexSpace THEN 0
    ELSE 1 + ValueLen(Tail(s))

\* .replace(/word([^&\s]+)/gi, 'word[REDACTED]') for word = key=, token=,
\* secret=: the word, in any case, and the value after it are replaced.
RECURSIVE ReplaceAfter(_, _)
ReplaceAfter(s, word) ==
    IF s = <<>> THEN <<>>
    ELSE LET n == ValueLen(SubSeq(s, Len(word) + 1, Len(s))) IN
         IF StartsWith(LowerText(s), word) /\ n > 0
         THEN word \o TxtRedacted
              \o ReplaceAfter(SubSeq(s, Len(word) + n + 1, Len(s)), word)
         ELSE <<Head(s)>> \o ReplaceAfter(Tail(s), word)

\* ErrorHandler.maskSensitiveInfo(message), with process.env = e
maskSensitiveInfo(e, message) ==
    IF InProduction(e)
    THEN ReplaceAfter(ReplaceAfter(ReplaceAfter(ReplaceRuns(message), TxtKeyEq),
                                   TxtTokenEq), TxtSecretEq)
    ELSE message

\* new Error(message): the stack starts with the name and the message
ErrorOf(message) ==
    [message |-> message, stack |-> TxtErrorColon \o message \o <<"\n", "a", "t">>]

\* ErrorHandler.formatError(error, context)
formatError(e, error, context) ==
    (IF context # <<>> THEN context \o <<":", " ">> ELSE <<>>)
    \o maskSensitiveInfo(e, error.message)
    \o (IF InProduction(e) THEN <<>> ELSE <<"\n">> \o error.stack)

\* ErrorHandler.handleError(error, context): what it prints, and the error
\* it throws, which is the error it was given
handleError(e, error, context) ==
    [ console |->
          <<[level |-> "error", text |-> formatError(e, error, context)]>>
          \o (IF InProduction(e) THEN <<>>
              ELSE <<[level |-> "debug", text |-> error.stack]>>),
      thrown |-> error ]

\* catch (err) { ErrorHandler.handleError(err, 'Packr Error') } in packr():
\* an error raised in the body of packr() is printed and thrown on
PackrCatch ==
    /\ fnResult = NoValue
    /\ fnArgs.route = "throw"
    /\ \E h \in {handleError(env, fnArgs.error, TxtPackrError)} :
          fnResult' = [stage |-> "thrown", console |-> h.console, shown |-> h.thrown]
    /\ UNCHANGED <<env, platform, binaryExists, configFile, artifact, options, ret,
                   resolved, promise, child, trace, fnArgs, envFiles, loader, cli>>

\* return Promise.reject(new Error(...)), reject(new Error(...)), reject(err):
\* the promise packr() returned is rejected with the error as it is
PackrReject ==
    /\ fnResult = NoValue
    /\ fnArgs.route = "reject"
    /\ fnResult' = [stage |-> "rejected", console |-> <<>>, shown |-> fnArgs.error]
    /\ UNCHANGED <<env, platform, binaryExists, configFile, artifact, options, ret,
                   resolved, promise, child, trace, fnArgs, envFiles, loader, cli>>

\* The CLI entry's catch: console.error(`Error reading config: ${err.message}`)
CliCatch ==
    /\ fnResult # NoValue
    /\ fnResult.stage = "thrown"
    /\ fnResult' =
          [fnResult EXCEPT
              !.stage = "exited",
              !.console = Append(@, [level |-> "error",
                                     text |-> TxtErrorReadingConfig
                                              \o fnResult.shown.message])]
    /\ UNCHANGED <<env, platform, binaryExists, configFile, artifact, options, ret,
                   resolved, promise, child, trace, fnArgs, envFiles, loader, cli>>

\* The CLI entry's .catch((err) => { console.error(err); ... }): the error
\* is printed as console.error prints an Error, by its stack
CliCatchRejection ==
    /\ fnResult # NoValue
    /\ fnResult.stage = "rejected"
    /\ fnResult' =
          [fnResult EXCEPT
              !.stage = "exited",
              !.console = Append(@, [level |-> "error", text |-> fnResult.shown.stack])]
    /\ UNCHANGED <<env, platform, binaryExists, configFile, artifact, options, ret,
                   resolved, promise, child, trace, fnArgs, envFiles, loader, cli>>

----------------------------------------------------------------------------
(* Operations *)

Ids == {"first", "second"}

\* A mutation of packr(): an invocation that finds the artifact already
\* written takes the config file as read and merges nothing from it.
PackrCallFileOnce(e, i, o, entry) ==
    /\ loader.pc = "done"
    /\ ret[i].kind = "none"
    /\ \E run \in {PackrRun(e, o, IF artifact.exists THEN NoFileKeys ELSE configFile,
                            binaryExists, platform)} :
       /\ options' = [options EXCEPT ![i] = o]
       /\ ret' = [ret EXCEPT ![i] =
                    IF run.thrown # NoError
                    THEN [kind |-> "throw", entry |-> entry, error |-> run.thrown]
                    ELSE [kind |-> "promise", entry |-> entry]]
       /\ resolved' = [resolved EXCEPT ![i] =
                         [userConfig |-> run.userConfig, config |-> run.config,
                          configDir |-> run.configDir]]
       /\ promise' = [promise EXCEPT ![i] =
                        IF run.thrown # NoError THEN NoPromise
                        ELSE IF run.rejected # NoError
                             THEN PromiseReject(Pending, run.rejected)
                             ELSE Pending]
       /\ artifact' = IF run.write.exists
                      THEN [exists |-> TRUE, content |-> run.write.content, writer |-> i]
                      ELSE artifact
       /\ child' = [child EXCEPT ![i] = run.spawn]
       /\ trace' = [trace EXCEPT ![i] = run.steps]
    /\ UNCHANGED <<env, platform, binaryExists, configFile, fnArgs, fnResult,
                   envFiles, loader>>

\* A mutation of packr(): the default of NODE_ENV is written to process.env
\* itself, not to the copy the worker receives.
PackrCallWritesEnv(e, i, o, entry) ==
    /\ loader.pc = "done"
    /\ ret[i].kind = "none"
    /\ \E run \in {PackrRun(e, o, configFile, binaryExists, platform)} :
       /\ options' = [options EXCEPT ![i] = o]
       /\ ret' = [ret EXCEPT ![i] =
                    IF run.thrown # NoError
                    THEN [kind |-> "throw", entry |-> entry, error |-> run.thrown]
                    ELSE [kind |-> "promise", entry |-> entry]]
       /\ resolved' = [resolved EXCEPT ![i] =
                         [userConfig |-> run.userConfig, config |-> run.config,
                          configDir |-> run.configDir]]
       /\ promise' = [promise EXCEPT ![i] =
                        IF run.thrown # NoError THEN NoPromise
                        ELSE IF run.rejected # NoError
                             THEN PromiseReject(Pending, run.rejected)
                             ELSE Pending]
       /\ artifact' = IF run.write.exists
                      THEN [exists |-> TRUE, content |-> run.write.content, writer |-> i]
                      ELSE artifact
       /\ child' = [child EXCEPT ![i] = run.spawn]
       /\ trace' = [trace EXCEPT ![i] = run.steps]
       /\ env' = IF run.spawn # NoChild /\ EnvFalsy(env, NameNodeEnv)
                 THEN EnvSet(env, NameNodeEnv, TxtProduction) ELSE env
    /\ UNCHANGED <<platform, binaryExists, configFile, fnArgs, fnResult,
                   envFiles, loader>>

\* packr(options) that leaves an artifact it finds in place
PackrCallKeepsArtifact(e, i, o, entry) ==
    /\ loader.pc = "done"
    /\ ret[i].kind = "none"
    /\ \E run \in {PackrRun(e, o, configFile, binaryExists, platform)} :
       /\ options' = [options EXCEPT ![i] = o]
       /\ ret' = [ret EXCEPT ![i] =
                    IF run.thrown # NoError
                    THEN [kind |-> "throw", entry |-> entry, error |-> run.thrown]
                    ELSE [kind |-> "promise", entry |-> entry]]
       /\ resolved' = [resolved EXCEPT ![i] =
                         [userConfig |-> run.userConfig, config |-> run.config,
                          configDir |-> run.configDir]]
       /\ promise' = [promise EXCEPT ![i] =
                        IF run.thrown # NoError THEN NoPromise
                        ELSE IF run.rejected # NoError
                             THEN PromiseReject(Pending, run.rejected)
                             ELSE Pending]
       /\ artifact' = IF run.write.exists /\ ~artifact.exists
                      THEN [exists |-> TRUE, content |-> run.write.content, writer |-> i]
                      ELSE artifact
       /\ child' = [child EXCEPT ![i] = run.spawn]
       /\ trace' = [trace EXCEPT ![i] = run.steps]
    /\ UNCHANGED <<env, platform, binaryExists, configFile, fnArgs, fnResult,
                   envFiles, loader>>

\* The body of packr(options), run as invocation i with process.env read as
\* e; entry names the caller: the exported function used, or the CLI entry.
\* packr is exported once the module has loaded, loadEnvFiles() included.
PackrCallIn(e, i, o, entry) ==
    /\ loader.pc = "done"
    /\ ret[i].kind = "none"
    /\ \E run \in {PackrRun(e, o, configFile, binaryExists, platform)} :
       /\ options' = [options EXCEPT ![i] = o]
       /\ ret' = [ret EXCEPT ![i] =
                    IF run.thrown # NoError
                    THEN [kind |-> "throw", entry |-> entry, error |-> run.thrown]
                    ELSE [kind |-> "promise", entry |-> entry]]
       /\ resolved' = [resolved EXCEPT ![i] =
                         [userConfig |-> run.userConfig, config |-> run.config,
                          configDir |-> run.configDir]]
       /\ promise' = [promise EXCEPT ![i] =
                        IF run.thrown # NoError THEN NoPromise
                        ELSE IF run.rejected # NoError
                             THEN PromiseReject(Pending, run.rejected)
                             ELSE Pending]
       /\ artifact' = IF run.write.exists
                      THEN [exists |-> TRUE, content |-> run.write.content, writer |-> i]
                      ELSE artifact
       /\ child' = [child EXCEPT ![i] = run.spawn]
       /\ trace' = [trace EXCEPT ![i] = run.steps]
    /\ UNCHANGED <<env, platform, binaryExists, configFile, fnArgs, fnResult,
                   envFiles, loader>>

\* packr(options) where process.env holds JavaScript values
PackrCall(i, o, entry) == PackrCallIn(env, i, o, entry)

\* A call of packr() or watch() by a program that required index.js
PackrBody(i, o, entry) == PackrCall(i, o, entry) /\ UNCHANGED cli

\* packr(options)
Packr(i, o) == PackrBody(i, o, "packr")

\* watch(options): packr({...options, watch: true})
Watch(i, o) == PackrBody(i, [o EXCEPT !["watch"] = True], "watch")

\* packrProcess.on('close', code => code === 0 ? resolve() : reject(...)):
\* the worker ended, by itself (a number) or by a signal (null)
WorkerClose(i, code) ==
    /\ child[i].state \in {"running", "failed"}
    /\ child' = [child EXCEPT ![i] = [@ EXCEPT !.state = "closed"] @@ [code |-> code]]
    /\ promise' = [promise EXCEPT ![i] =
                     IF code = Num(0) THEN PromiseResolve(@)
                     ELSE PromiseReject(@, ExitError(code))]
    /\ UNCHANGED <<env, platform, binaryExists, configFile, artifact, options, ret,
                   resolved, trace, fnArgs, fnResult, envFiles, loader, cli>>

\* packrProcess.on('error', err => reject(err)): the worker could not be
\* spawned; 'close' may still follow
WorkerError(i) ==
    /\ child[i].state = "running"
    /\ child' = [child EXCEPT ![i] = [@ EXCEPT !.state = "failed"] @@ [error |-> SpawnError]]
    /\ promise' = [promise EXCEPT ![i] = PromiseReject(@, SpawnError)]
    /\ UNCHANGED <<env, platform, binaryExists, configFile, artifact, options, ret,
                   resolved, trace, fnArgs, fnResult, envFiles, loader, cli>>

----------------------------------------------------------------------------
(* loadEnvFiles(), run once when index.js is loaded *)

\* const nodeEnv = process.env.NODE_ENV || 'development'
NodeEnvOf(e) == IF EnvFalsy(e, NameNodeEnv) THEN TxtDevelopment ELSE e[NameNodeEnv]

requiredVars == <<NameScssInput, NameScssOutput, NameJsInput, NameJsOutput>>

MissingVarsError(missing) == [kind |-> "MissingEnvVars", missing |-> missing]
PlaceholderError(names) == [kind |-> "PlaceholderValues", names |-> names]

\* A mutation of the filter: only undefined variables count as missing, an
\* empty value passes.
MissingVarsUndefinedOnly(e) == SelectSeq(requiredVars, LAMBDA k : ~EnvHas(e, k))

\* requiredVars.filter(key => !process.env[key])
MissingVars(e) == SelectSeq(requiredVars, LAMBDA k : EnvFalsy(e, k))

\* Object.keys(process.env).filter(key => key.startsWith('PACKR_') &&
\* /key|token|secret|password/i.test(key) &&
\* /example|test|dummy/i.test(process.env[key])), as a set
sensitiveVars(e) ==
    { k \in DOMAIN e :
        /\ StartsWith(k, TxtPackrPrefix)
        /\ \E q \in { <<"k", "e", "y">>, <<"t", "o", "k", "e", "n">>,
                     <<"s", "e", "c", "r", "e", "t">>,
                     <<"p", "a", "s", "s", "w", "o", "r", "d">> } :
              Contains(LowerText(k), q)
        /\ \E q \in { <<"e", "x", "a", "m", "p", "l", "e">>, <<"t", "e", "s", "t">>,
                     <<"d", "u", "m", "m", "y">> } :
              Contains(LowerText(e[k]), q) }

\* const currentSourcemap = process.env.PACKR_SOURCEMAP
NoSourcemap == [defined |-> FALSE]
CurrentSourcemap(e) ==
    IF EnvHas(e, NameSourcemap) THEN [defined |-> TRUE, value |-> e[NameSourcemap]]
    ELSE NoSourcemap

LoaderStart ==
    [pc |-> "base", nodeEnv |-> <<>>, thrown |-> NoError, console |-> <<>>, read |-> <<>>,
     currentSourcemap |-> NoSourcemap]

\* loadEnvFiles() ran before the state the other specifications start in
LoaderDone == [LoaderStart EXCEPT !.pc = "done", !.nodeEnv = TxtDevelopment]

\* What a call of loadEnvFromFile(filepath, ...) that gave r leaves in loader
AfterFile(r, filepath, nextPc, nodeEnv) ==
    [loader EXCEPT !.pc = IF r.thrown # NoError THEN "failed" ELSE nextPc,
                   !.nodeEnv = nodeEnv,
                   !.thrown = r.thrown,
                   !.console = @ \o r.console,
                   !.read = IF r.read THEN Append(@, filepath) ELSE @]

\* loadEnvFromFile('.env')
LoadBase ==
    /\ loader.pc = "base"
    /\ \E r \in {loadEnvFromFile(env, envFiles, TxtEnvFile, FALSE)} :
          /\ env' = r.env
          /\ loader' = AfterFile(r, TxtEnvFile, "mode", loader.nodeEnv)
    /\ UNCHANGED <<platform, binaryExists, configFile, artifact, options, ret, resolved,
                   promise, child, trace, fnArgs, fnResult, envFiles, cli>>

\* const nodeEnv = ...; loadEnvFromFile(`.env-${nodeEnv}`, true)
LoadMode ==
    /\ loader.pc = "mode"
    /\ \E r \in {loadEnvFromFile(env, envFiles, TxtEnvDash \o NodeEnvOf(env), TRUE)} :
          /\ env' = r.env
          /\ loader' = AfterFile(r, TxtEnvDash \o NodeEnvOf(env), "local", NodeEnvOf(env))
    /\ UNCHANGED <<platform, binaryExists, configFile, artifact, options, ret, resolved,
                   promise, child, trace, fnArgs, fnResult, envFiles, cli>>

\* if (nodeEnv === 'development' && fs.existsSync('.env-local')) { save
\* PACKR_SOURCEMAP; loadEnvFromFile('.env-local', true); restore it }
LoadLocal ==
    /\ loader.pc = "local"
    /\ IF loader.nodeEnv = TxtDevelopment /\ TxtEnvLocal \in DOMAIN envFiles
       THEN \E r \in {loadEnvFromFile(env, envFiles, TxtEnvLocal, TRUE)} :
              /\ env' = IF r.thrown = NoError /\ CurrentSourcemap(env).defined
                        THEN EnvSet(r.env, NameSourcemap, CurrentSourcemap(env).value)
                        ELSE r.env
              /\ loader' = [AfterFile(r, TxtEnvLocal, "checks", loader.nodeEnv)
                              EXCEPT !.currentSourcemap = CurrentSourcemap(env)]
       ELSE /\ env' = env
            /\ loader' = [loader EXCEPT !.pc = "checks"]
    /\ UNCHANGED <<platform, binaryExists, configFile, artifact, options, ret, resolved,
                   promise, child, trace, fnArgs, fnResult, envFiles, cli>>

\* if (nodeEnv === 'production') { required variables; placeholder values }
ProductionChecks ==
    /\ loader.pc = "checks"
    /\ loader' =
         IF loader.nodeEnv # TxtProduction THEN [loader EXCEPT !.pc = "done"]
         ELSE IF MissingVars(env) # <<>>
         THEN [loader EXCEPT !.pc = "failed", !.thrown = MissingVarsError(MissingVars(env))]
         ELSE IF sensitiveVars(env) # {}
         THEN [loader EXCEPT !.pc = "failed",
                             !.thrown = PlaceholderError(sensitiveVars(env))]
         ELSE [loader EXCEPT !.pc = "done"]
    /\ UNCHANGED <<env, platform, binaryExists, configFile, artifact, options, ret,
                   resolved, promise, child, trace, fnArgs, fnResult, envFiles, cli>>

----------------------------------------------------------------------------
(* packr() and watch() in the process whose environment the loader left *)

\* The name of each variable packr() reads, as a text
EnvNameOf(v) ==
    CASE v = "NODE_ENV" -> NameNodeEnv
      [] v = "PACKR_SCSS_INPUT" -> NameScssInput
      [] v = "PACKR_SCSS_OUTPUT" -> NameScssOutput
      [] v = "PACKR_JS_INPUT" -> NameJsInput
      [] v = "PACKR_JS_OUTPUT" -> NameJsOutput
      [] v = "PACKR_SOURCEMAP" -> NameSourcemap
      [] v = "PACKR_CSS_DESTINATION" ->
            TxtPackrPrefix \o <<"C", "S", "S", "_", "D", "E", "S", "T", "I", "N", "A", "T", "I", "O", "N">>
      [] v = "PACKR_JS_DESTINATION" ->
            TxtPackrPrefix \o <<"J", "S", "_", "D", "E", "S", "T", "I", "N", "A", "T", "I", "O", "N">>
      [] v = "PACKR_MINIFY" -> TxtPackrPrefix \o <<"M", "I", "N", "I", "F", "Y">>
      [] v = "PACKR_MINIFY_JS" -> TxtPackrPrefix \o <<"M", "I", "N", "I", "F", "Y", "_", "J", "S">>
      [] v = "PACKR_MINIFY_CSS" ->
            TxtPackrPrefix \o <<"M", "I", "N", "I", "F", "Y", "_", "C", "S", "S">>
      [] v = "PACKR_UGLIFY_MANGLE" ->
            TxtPackrPrefix \o <<"U", "G", "L", "I", "F", "Y", "_", "M", "A", "N", "G", "L", "E">>
      [] v = "PACKR_UGLIFY_KEEP_FNAMES" ->
            TxtPackrPrefix \o <<"U", "G", "L", "I", "F", "Y", "_", "K", "E", "E", "P", "_",
                                "F", "N", "A", "M", "E", "S">>
      [] v = "PACKR_UGLIFY_KEEP_CLASSNAMES" ->
            TxtPackrPrefix \o <<"U", "G", "L", "I", "F", "Y", "_", "K", "E", "E", "P", "_",
                                "C", "L", "A", "S", "S", "N", "A", "M", "E", "S">>
      [] v = "PACKR_UGLIFY_RESERVED" ->
            TxtPackrPrefix \o <<"U", "G", "L", "I", "F", "Y", "_", "R", "E", "S", "E", "R", "V", "E", "D">>
      [] v = "PACKR_TARGET" -> TxtPackrPrefix \o <<"T", "A", "R", "G", "E", "T">>
      [] v = "PACKR_VERBOSE" -> TxtPackrPrefix \o <<"V", "E", "R", "B", "O", "S", "E">>
      [] v = "PACKR_FORMAT" -> TxtPackrPrefix \o <<"F", "O", "R", "M", "A", "T">>
      [] v = "PACKR_ESLINT" -> TxtPackrPrefix \o <<"E", "S", "L", "I", "N", "T">>
      [] v = "PACKR_ESLINT_CONFIG" ->
            TxtPackrPrefix \o <<"E", "S", "L", "I", "N", "T", "_", "C", "O", "N", "F", "I", "G">>

\* The variables whose value packr() reads as a path
PathVars ==
    { "PACKR_SCSS_INPUT", "PACKR_SCSS_OUTPUT", "PACKR_JS_INPUT", "PACKR_JS_OUTPUT",
      "PACKR_CSS_DESTINATION", "PACKR_JS_DESTINATION", "PACKR_ESLINT_CONFIG" }

\* The segments of a path written as a text: the parts between "/"
RECURSIVE SplitSegs(_)
SplitSegs(s) ==
    IF s = <<>> THEN <<>>
    ELSE LET n == IndexOf(s, "/") IN
         IF n = 0 THEN <<s>>
         ELSE (IF n = 1 THEN <<>> ELSE <<SubSeq(s, 1, n - 1)>>)
              \o SplitSegs(SubSeq(s, n + 1, Len(s)))

\* A text read as a path
ParsePath(s) == [abs |-> s # <<>> /\ Head(s) = "/", segs |-> SplitSegs(s)]

\* A text as the value of a variable that is not a path; the texts are those
\* the environment files and the initial environments give these variables
JsString(s) ==
    CASE s = <<>> -> Str("")
      [] s = <<"t", "r", "u", "e">> -> Str("true")
      [] s = <<"f", "a", "l", "s", "e">> -> Str("false")
      [] s = TxtProduction -> Str("production")
      [] s = TxtDevelopment -> Str("development")
      [] s = TxtStaging -> Str("staging")

\* process.env as the expressions of packr() read it: undefined for a
\* variable that is not set, else its text
JsEnv(e) ==
    [v \in EnvVars |->
        IF ~EnvHas(e, EnvNameOf(v)) THEN Undef
        ELSE IF v \in PathVars THEN PathText(ParsePath(e[EnvNameOf(v)]))
        ELSE JsString(e[EnvNameOf(v)])]

\* packr(options), called by a program that required index.js
PackrAfterLoad(i, o) == PackrCallIn(JsEnv(env), i, o, "packr") /\ UNCHANGED cli

\* watch(options)
WatchAfterLoad(i, o) ==
    PackrCallIn(JsEnv(env), i, [o EXCEPT !["watch"] = True], "watch") /\ UNCHANGED cli

----------------------------------------------------------------------------
(* The CLI entry: node index.js [args] *)

\* The argument --watch
WatchFlag == Rel(<<SegWatchFlag>>)

\* A file whose content JSON.parse rejects
Unparsable == [parse |-> FALSE]

\* fs.existsSync(p) and fs.statSync(p).isDirectory() on the files disk
ExistsSync(disk, p) == PathResolve1(Cwd, p) \in DOMAIN disk
IsDirectory(disk, p) == disk[PathResolve1(Cwd, p)].kind = "dir"

\* path.join(dir, name) of a text that may be relative
JoinText(dir, name) == [abs |-> dir.abs, segs |-> dir.segs \o <<name>>]

\* let configPath = args[0] || (packr.json exists ? packr.json : .packr.json);
\* if it is a directory, configPath = path.join(configPath, '.packr.json')
CliConfigPath(args, disk) ==
    LET first == IF Len(args) >= 1 THEN args[1]
                 ELSE IF ExistsSync(disk, JoinText(Cwd, SegJson))
                      THEN JoinText(Cwd, SegJson)
                      ELSE JoinText(Cwd, SegDotJson)
    IN IF ExistsSync(disk, first) /\ IsDirectory(disk, first)
       THEN JoinText(first, SegDotJson)
       ELSE first

\* const watchMode = args.includes('--watch')
CliWatchMode(args) == \E n \in 1..Len(args) : args[n] = WatchFlag

\* A mutation of the rejection handler: the error is printed and the process
\* is left to end by itself.
ExitCodeAlwaysZero(p) == 0

\* The exit code once the promise of packr() is settled: .catch(err => {
\* console.error(err); process.exit(1) }), else the process ends by itself
ExitCodeOf(p) == IF p.state = "rejected" THEN 1 ELSE 0

CliStart(argv, disk) == [stage |-> "start", argv |-> argv, disk |-> disk]

CliExit(configPath, watchMode, code) ==
    [cli EXCEPT !.stage = "exited"] @@
    [configPath |-> configPath, watchMode |-> watchMode, exitCode |-> code]

\* The synchronous part of the CLI entry: arguments, the existence check,
\* JSON.parse and the call of packr({...config, watch: watchMode})
CliEntry ==
    /\ cli.stage = "start"
    /\ \E configPath \in {CliConfigPath(cli.argv, cli.disk)} :
       IF ~ExistsSync(cli.disk, configPath)
          \/ cli.disk[PathResolve1(Cwd, configPath)].kind = "dir"
          \/ cli.disk[PathResolve1(Cwd, configPath)].json = Unparsable
       THEN /\ cli' = CliExit(configPath, CliWatchMode(cli.argv), 1)
            /\ UNCHANGED <<env, platform, binaryExists, configFile, artifact, options,
                           ret, resolved, promise, child, trace, fnArgs, fnResult,
                           envFiles, loader>>
       ELSE /\ PackrCall("first",
                         [cli.disk[PathResolve1(Cwd, configPath)].json
                            EXCEPT !["watch"] = Bool(CliWatchMode(cli.argv))],
                         "cli")
            /\ cli' = IF ret'["first"].kind = "throw"
                      THEN CliExit(configPath, CliWatchMode(cli.argv), 1)
                      ELSE [cli EXCEPT !.stage = "waiting"] @@
                           [configPath |-> configPath,
                            watchMode |-> CliWatchMode(cli.argv)]

\* The promise is settled and its reactions have run: the rejection handler
\* exits with 1; after a fulfilment nothing is left to run and node exits
CliSettled ==
    /\ cli.stage = "waiting"
    /\ promise["first"].state \in {"fulfilled", "rejected"}
    /\ cli' = [cli EXCEPT !.stage = "exited"] @@ [exitCode |-> ExitCodeOf(promise["first"])]
    /\ UNCHANGED <<env, platform, binaryExists, configFile, artifact, options, ret,
                   resolved, promise, child, trace, fnArgs, fnResult, envFiles, loader>>

\* The worker's events reach the CLI process while it waits for the promise
CliWorkerClose ==
    /\ cli.stage = "waiting"
    /\ promise["first"] = Pending
    /\ \E code \in { Num(n) : n \in 0..MaxExitCode } \cup { Null } : WorkerClose("first", code)

CliWorkerError ==
    /\ cli.stage = "waiting"
    /\ promise["first"] = Pending
    /\ WorkerError("first")

----------------------------------------------------------------------------
(* Inputs *)

TextF == Rel(<<SegF>>)                   \* f
TextDG == Rel(<<SegD, SegG>>)            \* d/g
TextCG == Rel(<<SegC, SegG>>)            \* c/g
TextG == Rel(<<SegG>>)                   \* g
TextUpX == Rel(<<DotDot, SegX>>)         \* ../x
TextUpUpX == Rel(<<DotDot, DotDot, SegX>>)   \* ../../x
TextAbsPG == Abs(<<SegP, SegG>>)         \* /p/g
TextAbsXF == Abs(<<SegX, SegF>>)         \* /x/f
TextD == Rel(<<SegD>>)                   \* d

PathSettings == {"scss_input", "scss_output", "js_input", "js_output",
                 "css_destination", "js_destination"}
BoolSettings == {"minify", "minify_js", "minify_css", "uglify.mangle",
                 "uglify.keep_fnames", "uglify.keep_classnames",
                 "verbose", "sourcemap", "eslint"}
TextSettings == {"target", "format"}
Settings == PathSettings \cup BoolSettings \cup TextSettings
            \cup {"eslint_config", "uglify.reserved"}

\* The environment variable of a setting
EnvVarOf(f) ==
    CASE f = "scss_input" -> "PACKR_SCSS_INPUT"
      [] f = "scss_output" -> "PACKR_SCSS_OUTPUT"
      [] f = "js_input" -> "PACKR_JS_INPUT"
      [] f = "js_output" -> "PACKR_JS_OUTPUT"
      [] f = "css_destination" -> "PACKR_CSS_DESTINATION"
      [] f = "js_destination" -> "PACKR_JS_DESTINATION"
      [] f = "minify" -> "PACKR_MINIFY"
      [] f = "minify_js" -> "PACKR_MINIFY_JS"
      [] f = "minify_css" -> "PACKR_MINIFY_CSS"
      [] f = "uglify.mangle" -> "PACKR_UGLIFY_MANGLE"
      [] f = "uglify.keep_fnames" -> "PACKR_UGLIFY_KEEP_FNAMES"
      [] f = "uglify.keep_classnames" -> "PACKR_UGLIFY_KEEP_CLASSNAMES"
      [] f = "uglify.reserved" -> "PACKR_UGLIFY_RESERVED"
      [] f = "target" -> "PACKR_TARGET"
      [] f = "verbose" -> "PACKR_VERBOSE"
      [] f = "sourcemap" -> "PACKR_SOURCEMAP"
      [] f = "format" -> "PACKR_FORMAT"
      [] f = "eslint" -> "PACKR_ESLINT"
      [] f = "eslint_config" -> "PACKR_ESLINT_CONFIG"

\* The options key packr() reads for a setting; for eslint and eslint_config,
\* which it reads from no options key, the key of the PackrOptions type.
OptionKeyOf(f) ==
    CASE f = "scss_input" -> "scssInput"
      [] f = "scss_output" -> "scssOutput"
      [] f = "js_input" -> "jsInput"
      [] f = "js_output" -> "jsOutput"
      [] f = "css_destination" -> "cssDestination"
      [] f = "js_destination" -> "jsDestination"
      [] f = "minify_js" -> "minifyJs"
      [] f = "minify_css" -> "minifyCss"
      [] f = "uglify.keep_fnames" -> "uglify.keepFnames"
      [] f = "uglify.keep_classnames" -> "uglify.keepClassnames"
      [] OTHER -> f

EnvValuesOf(f) ==
    IF f \in PathSettings \cup {"eslint_config"}
    THEN {Undef, PathText(EmptyText), PathText(TextDG), PathText(TextUpX), PathText(TextAbsPG)}
    ELSE IF f \in BoolSettings
    THEN {Undef, Str(""), Str("true"), Str("false"), Str("TRUE")}
    ELSE IF f = "target" THEN {Undef, Str(""), Str("es5")}
    ELSE IF f = "format" THEN {Undef, Str(""), Str("esm")}
    ELSE {Undef, Csv(<<"">>), Csv(<<"a", "", "b">>)}

OptionValuesOf(f) ==
    IF f \in PathSettings \cup {"eslint_config"}
    THEN {Undef, PathText(EmptyText), PathText(TextCG), PathText(TextUpUpX)}
    ELSE IF f \in BoolSettings THEN {Undef, True, False}
    ELSE IF f = "target" THEN {Undef, Str(""), Str("es2017")}
    ELSE IF f = "format" THEN {Undef, Str(""), Str("cjs")}
    ELSE {Undef, Csv(<<"c">>), Arr(<<"a">>), Arr(<<>>)}

FileValuesOf(f) ==
    IF f \in PathSettings \cup {"eslint_config"}
    THEN {Undef, PathText(TextG), PathText(TextAbsXF)}
    ELSE IF f \in BoolSettings THEN {Undef, True, False}
    ELSE IF f = "target" THEN {Undef, Str("es6")}
    ELSE IF f = "format" THEN {Undef, Str("umd")}
    ELSE {Undef, Csv(<<"d", "">>), Arr(<<"jQuery", "$">>)}

\* The four required paths, given under the keys packr() reads
CamelOptions ==
    [NoOptions EXCEPT !["scssInput"] = PathText(TextF), !["scssOutput"] = PathText(TextDG),
                      !["jsInput"] = PathText(TextG), !["jsOutput"] = PathText(TextD)]

\* The four required paths, given under the keys of the README and of PackrOptions
DocumentedOptions ==
    [NoOptions EXCEPT !["scss_input"] = PathText(TextF), !["scss_output"] = PathText(TextDG),
                      !["js_input"] = PathText(TextG), !["js_output"] = PathText(TextD)]

RequiredEnv ==
    [NoEnv EXCEPT !["PACKR_SCSS_INPUT"] = PathText(TextG),
                  !["PACKR_SCSS_OUTPUT"] = PathText(TextCG),
                  !["PACKR_JS_INPUT"] = PathText(TextF),
                  !["PACKR_JS_OUTPUT"] = PathText(TextAbsPG)]

RequiredFile ==
    [NoFileKeys EXCEPT !["scss_input"] = PathText(TextDG), !["scss_output"] = PathText(TextF),
                       !["js_input"] = PathText(TextD), !["js_output"] = PathText(TextG)]

ConfigOptionValues ==
    { Undef, PathText(Rel(<<SegJson>>)), PathText(Rel(<<SegC, SegJson>>)),
      PathText(Abs(<<SegX, SegJson>>)), PathText(Rel(<<SegMissing>>)) }

\* Where the four required paths come from in a merge scenario
Profiles ==
    { [env |-> NoEnv, options |-> NoOptions, file |-> NoFileKeys],
      [env |-> NoEnv, options |-> CamelOptions, file |-> NoFileKeys],
      [env |-> NoEnv, options |-> DocumentedOptions, file |-> NoFileKeys],
      [env |-> RequiredEnv, options |-> NoOptions, file |-> NoFileKeys],
      [env |-> NoEnv, options |-> NoOptions, file |-> RequiredFile] }

\* A merge scenario about setting f: a profile, options.config, and the
\* three sources of f set to ev, ov and fv.
MergeScenario(pr, c, f, ev, ov, fv) ==
    [ env |-> [pr.env EXCEPT ![EnvVarOf(f)] = ev],
      options |-> [pr.options EXCEPT ![OptionKeyOf(f)] = ov, !["config"] = c],
      file |-> [pr.file EXCEPT ![f] = fv],
      setting |-> f ]

\* Candidate paths and base directories for the sandbox
SegAlphabet == {Dot, DotDot, SegP, SegD, SegDDA}
SegLists == UNION { [1..n -> SegAlphabet] : n \in 0..MaxSegs }
CandidatePaths == { [abs |-> a, segs |-> ss] : a \in BOOLEAN, ss \in SegLists }
BaseDirs == { PROJECT_ROOT, Abs(<<SegP, SegC>>), Abs(<<SegX>>), Abs(<<>>) }

\* Lines of environment files
LineFoo1 == <<"F", "O", "O", "=", "1">>
LineFooPadded2 == <<"F", "O", "O", " ", "=", " ", "2">>
LineFoo4 == <<"F", "O", "O", "=", "4">>
LineFooQuoted3 == <<"F", "O", "O", "=", "\"", "3", "\"">>
LineFoo5 == <<"F", "O", "O", "=", "5">>
LineComment == <<"#", " ", "F", "O", "O", "=", "9">>
LineBlank == <<" ", " ">>
LineNodeProduction == <<"N", "O", "D", "E", "_", "E", "N", "V", "=", "p", "r", "o", "d", "u", "c", "t", "i", "o", "n">>
LineSourcemapFalse == <<"P", "A", "C", "K", "R", "_", "S", "O", "U", "R", "C", "E", "M", "A", "P", "=", "f", "a", "l", "s", "e">>
LineSourcemapPaddedTrue == <<"P", "A", "C", "K", "R", "_", "S", "O", "U", "R", "C", "E", "M", "A", "P", " ", "=", "t", "r", "u", "e">>
LineScssInput == <<"P", "A", "C", "K", "R", "_", "S", "C", "S", "S", "_", "I", "N", "P", "U", "T", "=", "f">>
LineScssOutput == <<"P", "A", "C", "K", "R", "_", "S", "C", "S", "S", "_", "O", "U", "T", "P", "U", "T", "=", "d", "/", "g">>
LineJsInput == <<"P", "A", "C", "K", "R", "_", "J", "S", "_", "I", "N", "P", "U", "T", "=", "g">>
LineJsOutput == <<"P", "A", "C", "K", "R", "_", "J", "S", "_", "O", "U", "T", "P", "U", "T", "=", "d">>
LineJsOutputEmpty == <<"P", "A", "C", "K", "R", "_", "J", "S", "_", "O", "U", "T", "P", "U", "T", "=">>
LinePackrApiKey == <<"P", "A", "C", "K", "R", "_", "A", "P", "I", "_", "K", "E", "Y", "=", "e", "x", "a", "m", "p", "l", "e", "-", "k", "e", "y">>
LineApiKey == <<"A", "P", "I", "_", "K", "E", "Y", "=", "e", "x", "a", "m", "p", "l", "e", "-", "k", "e", "y">>

RequiredLines == <<LineScssInput, LineScssOutput, LineJsInput, LineJsOutput>>

\* The function with the given <<argument, value>> pairs
Defined(pairs) ==
    [n \in {q[1] : q \in pairs} |-> (CHOOSE q \in pairs : q[1] = n)[2]]

\* process.env before loadEnvFiles()
InitialEnvs ==
    { Defined(pairs) : pairs \in {
        {},
        {<<NameNodeEnv, TxtProduction>>},
        {<<NameNodeEnv, TxtDevelopment>>},
        {<<NameNodeEnv, TxtStaging>>},
        {<<NameFoo, <<"0">>>>, <<NameSourcemap, <<"t", "r", "u", "e">>>>},
        {<<NameNodeEnv, TxtDevelopment>>, <<NameSourcemap, <<"t", "r", "u", "e">>>>},
        {<<NameNodeEnv, TxtProduction>>, <<NameFoo, <<"0">>>>,
         <<NameScssInput, <<"f">>>>, <<NameScssOutput, <<"g">>>>,
         <<NameJsInput, <<"f">>>>, <<NameJsOutput, <<"g">>>>} } }

\* The permission bits of an environment file: 0o600 or 0o644
FileModes == {OwnerOnly, 420}

BaseContents ==
    { <<LineFoo1>>, <<LineFooPadded2>>, <<LineFoo1, LineFoo4>>,
      <<LineComment, LineBlank, LineNodeProduction, LineFooQuoted3>> }

ProductionContents ==
    { <<LineFooPadded2, LineJsOutputEmpty>>,
      RequiredLines \o <<LineFooPadded2>>,
      RequiredLines \o <<LinePackrApiKey>>,
      RequiredLines \o <<LineApiKey>> }

DevelopmentContents ==
    { <<LineFooPadded2, LineSourcemapFalse>>,
      <<LineFooPadded2, LineFoo5>>,
      <<LineNodeProduction, LineFooPadded2>> }

LocalContents ==
    { <<LineFoo4, LineSourcemapPaddedTrue>>,
      <<LineFooQuoted3>> }

\* A file name with no file, or with one of the given contents and modes
FileChoices(name, contents) ==
    {{}} \cup { {<<name, [mode |-> m, lines |-> c]>>} : m \in FileModes, c \in contents }

\* The environment files on disk
Disks ==
    { Defined(b \cup p \cup d \cup l) :
        b \in FileChoices(TxtEnvFile, BaseContents),
        p \in FileChoices(TxtEnvDash \o TxtProduction, ProductionContents),
        d \in FileChoices(TxtEnvDash \o TxtDevelopment, DevelopmentContents),
        l \in FileChoices(TxtEnvLocal, LocalContents) }

\* Arguments and files of the CLI entry
CliArgvs ==
    { <<>>,
      <<WatchFlag>>,
      <<Rel(<<SegC, SegJson>>)>>,
      <<Rel(<<SegC>>)>>,
      <<Rel(<<SegJson>>), WatchFlag>>,
      <<WatchFlag, Rel(<<SegJson>>)>>,
      <<Rel(<<SegMissing>>)>> }

JsonFile(content) == [kind |-> "file", json |-> content]
Directory == [kind |-> "dir"]

CliJsons ==
    { CamelOptions, DocumentedOptions,
      [CamelOptions EXCEPT !["jsOutput"] = PathText(TextUpX)], Unparsable }

CliDisks ==
    { <<>> }
    \cup { Defined({<<Abs(<<SegP, SegJson>>), JsonFile(j)>>}) : j \in CliJsons }
    \cup { Defined({<<Abs(<<SegP, SegDotJson>>), JsonFile(j)>>}) : j \in CliJsons }
    \cup { Defined({<<Abs(<<SegP, SegJson>>), JsonFile(j)>>,
                    <<Abs(<<SegP, SegDotJson>>), JsonFile(Unparsable)>>,
                    <<Abs(<<SegP, SegC>>), Directory>>,
                    <<Abs(<<SegP, SegC, SegJson>>), JsonFile(j)>>,
                    <<Abs(<<SegP, SegC, SegDotJson>>), JsonFile(j)>>}) : j \in CliJsons }

\* Arguments of joinOut as its two call sites give them: the output path and
\* the destination come out of resolveSafe, absolute and normalized (the
\* root of the file system included, which is in-root when packr runs
\* there), or the destination is undefined; the base directory is absolute.
OutputNames == {SegP, SegC, SegG}
NormalizedPaths == { Abs(ss) : ss \in UNION { [1..n -> OutputNames] : n \in 0..MaxSegs } }
Destinations == {Undef} \cup { PathText(d) : d \in NormalizedPaths }

\* A process from its start: environments and environment files
LifeEnvs ==
    { Defined(pairs) : pairs \in {
        {},
        {<<NameNodeEnv, TxtProduction>>},
        {<<NameNodeEnv, TxtDevelopment>>, <<NameSourcemap, <<"t", "r", "u", "e">>>>} } }

LifeDisks ==
    { Defined(b \cup p \cup l) :
        b \in {{}, {<<TxtEnvFile, [mode |-> OwnerOnly, lines |-> RequiredLines]>>},
                   {<<TxtEnvFile, [mode |-> 420, lines |-> <<LineSourcemapFalse>>]>>}},
        p \in {{}, {<<TxtEnvDash \o TxtProduction,
                      [mode |-> OwnerOnly, lines |-> RequiredLines \o <<LinePackrApiKey>>]>>}},
        l \in {{}, {<<TxtEnvLocal,
                      [mode |-> OwnerOnly, lines |-> <<LineFoo4, LineSourcemapPaddedTrue>>]>>}} }

LifeOptions ==
    { NoOptions, CamelOptions, [CamelOptions EXCEPT !["jsOutput"] = PathText(TextUpX)] }

\* Error messages: a text before, a value and a text after
LongRun(n) == [k \in 1..n |-> IF k % 2 = 0 THEN "a" ELSE "7"]

MessageHeads ==
    { <<>>, TxtKeyEq, <<"K", "E", "Y", "=">>, TxtTokenEq, TxtSecretEq,
      <<"a", "t", " ", "/">>, <<"k", "e", "y", " ">> }

MessageValues ==
    { <<>>, <<"s", "3">>, <<"s", "-", "3">>, LongRun(MinRun - 1), LongRun(MinRun),
      LongRun(MinRun + 1), TxtRedacted }

MessageTails == { <<>>, <<"&", "x">>, <<" ", "t", "o", "k", "e", "n", "=", "t">> }

ErrorEnvs ==
    { <<>>, Defined({<<NameNodeEnv, TxtProduction>>}),
      Defined({<<NameNodeEnv, TxtDevelopment>>}) }

\* The invocations of the worker life cycle
CallOptions ==
    { NoOptions,
      CamelOptions,
      [CamelOptions EXCEPT !["watch"] = True],
      [CamelOptions EXCEPT !["watch"] = False],
      [CamelOptions EXCEPT !["jsOutput"] = PathText(TextUpX)],
      [NoOptions EXCEPT !["config"] = PathText(Rel(<<SegC, SegJson>>)), !["watch"] = True],
      DocumentedOptions }

EnvProfiles == { NoEnv, [RequiredEnv EXCEPT !["NODE_ENV"] = Str("development")] }
DiskProfiles == { [RequiredFile EXCEPT !["css_destination"] = PathText(TextD)] }
Platforms == { "linux", "win32" }
CloseCodes == { Num(n) : n \in 0..MaxExitCode } \cup { Null }

----------------------------------------------------------------------------
(* Specifications *)

NoCalls ==
    /\ options = [i \in Ids |-> NoOptions]
    /\ ret = [i \in Ids |-> [kind |-> "none"]]
    /\ resolved = [i \in Ids |-> [userConfig |-> NoValue, config |-> NoValue,
                                  configDir |-> NoValue]]
    /\ promise = [i \in Ids |-> NoPromise]
    /\ child = [i \in Ids |-> NoChild]
    /\ trace = [i \in Ids |-> <<>>]
    /\ artifact = NoFile

\* loadEnvFiles() has run, with no environment file on disk
Loaded ==
    /\ envFiles = <<>>
    /\ loader = LoaderDone

NoCli == [stage |-> "none"]

\* The worker life cycle: two invocations, made in any order and overlapping
Init ==
    /\ env \in EnvProfiles
    /\ platform \in Platforms
    /\ binaryExists \in BOOLEAN
    /\ configFile \in DiskProfiles
    /\ NoCalls
    /\ Loaded
    /\ cli = NoCli
    /\ fnArgs = NoValue
    /\ fnResult = NoValue

CallPackr == \E i \in Ids, o \in CallOptions : Packr(i, o)
CallWatch == \E i \in Ids, o \in CallOptions : Watch(i, o)
Close == \E i \in Ids, code \in CloseCodes : WorkerClose(i, code)
Error == \E i \in Ids : WorkerError(i)

Next == CallPackr \/ CallWatch \/ Close \/ Error

Spec == Init /\ [][Next]_vars

\* The merge: one invocation of packr() in each merge scenario
MergeInit ==
    /\ \E pr \in Profiles, c \in ConfigOptionValues, f \in Settings :
         \E ev \in EnvValuesOf(f), ov \in OptionValuesOf(f), fv \in FileValuesOf(f) :
            fnArgs = MergeScenario(pr, c, f, ev, ov, fv)
    /\ env = fnArgs.env
    /\ configFile = fnArgs.file
    /\ platform = "linux"
    /\ binaryExists = TRUE
    /\ NoCalls
    /\ Loaded
    /\ cli = NoCli
    /\ fnResult = NoValue

MergeCall == Packr("first", fnArgs.options)

MergeNext == MergeCall

MergeSpec == MergeInit /\ [][MergeNext]_vars

\* The sandbox: resolveSafe applied to a candidate path and a base directory
PathInit ==
    /\ fnArgs \in [p : CandidatePaths, baseDir : BaseDirs]
    /\ fnResult = NoValue
    /\ env = NoEnv
    /\ platform = "linux"
    /\ binaryExists = TRUE
    /\ configFile = NoFileKeys
    /\ NoCalls
    /\ Loaded
    /\ cli = NoCli

ApplyResolveSafe ==
    /\ fnResult = NoValue
    /\ fnResult' = resolveSafe(fnArgs.p, fnArgs.baseDir)
    /\ UNCHANGED <<env, platform, binaryExists, configFile, artifact, options, ret,
                   resolved, promise, child, trace, fnArgs,
                   envFiles, loader, cli>>

PathNext == ApplyResolveSafe

PathSpec == PathInit /\ [][PathNext]_vars

\* The environment loader: loadEnvFiles() from any process environment and
\* any set of environment files
LoadInit ==
    /\ env \in InitialEnvs
    /\ envFiles \in Disks
    /\ loader = LoaderStart
    /\ platform = "linux"
    /\ binaryExists = TRUE
    /\ configFile = NoFileKeys
    /\ NoCalls
    /\ cli = NoCli
    /\ fnArgs = [env |-> env]
    /\ fnResult = NoValue

LoadNext == LoadBase \/ LoadMode \/ LoadLocal \/ ProductionChecks

LoadSpec == LoadInit /\ [][LoadNext]_vars

\* The CLI entry: index.js run as the main module, up to the exit of the
\* process
CliInit ==
    /\ env \in EnvProfiles
    /\ platform \in Platforms
    /\ binaryExists \in BOOLEAN
    /\ configFile \in DiskProfiles
    /\ NoCalls
    /\ Loaded
    /\ cli \in { CliStart(argv, disk) : argv \in CliArgvs, disk \in CliDisks }
    /\ fnArgs = NoValue
    /\ fnResult = NoValue

CliNext == CliEntry \/ CliWorkerClose \/ CliWorkerError \/ CliSettled

CliSpec == CliInit /\ [][CliNext]_vars

\* Errors on their way out: an error raised in packr() or a rejection of
\* its promise, as ErrorHandler and the CLI entry print it
ErrorInit ==
    /\ env \in ErrorEnvs
    /\ \E h \in MessageHeads, v \in MessageValues, t \in MessageTails,
          route \in {"throw", "reject"} :
          fnArgs = [error |-> ErrorOf(h \o v \o t), route |-> route]
    /\ fnResult = NoValue
    /\ platform = "linux"
    /\ binaryExists = TRUE
    /\ configFile = NoFileKeys
    /\ NoCalls
    /\ Loaded
    /\ cli = NoCli

ErrorNext == PackrCatch \/ PackrReject \/ CliCatch \/ CliCatchRejection

ErrorSpec == ErrorInit /\ [][ErrorNext]_vars

\* Output normalization: joinOut applied twice
NormInit ==
    /\ \E out \in NormalizedPaths, dest \in Destinations, base \in BaseDirs :
          fnArgs = [outFile |-> PathText(out), destDir |-> dest, baseDir |-> base]
    /\ fnResult = NoValue
    /\ env = NoEnv
    /\ platform = "linux"
    /\ binaryExists = TRUE
    /\ configFile = NoFileKeys
    /\ NoCalls
    /\ Loaded
    /\ cli = NoCli

NormNext == ApplyJoinOut \/ ApplyJoinOutAgain

NormSpec == NormInit /\ [][NormNext]_vars

\* A process from its start: index.js is loaded, which runs loadEnvFiles(),
\* and the program then invokes packr() and watch()
LifeInit ==
    /\ env \in LifeEnvs
    /\ envFiles \in LifeDisks
    /\ loader = LoaderStart
    /\ platform = "linux"
    /\ binaryExists = TRUE
    /\ configFile \in DiskProfiles
    /\ NoCalls
    /\ cli = NoCli
    /\ fnArgs = [env |-> env]
    /\ fnResult = NoValue

LifePackr == \E i \in Ids, o \in LifeOptions : PackrAfterLoad(i, o)
LifeWatch == \E i \in Ids, o \in LifeOptions : WatchAfterLoad(i, o)

LifeNext ==
    \/ LoadBase \/ LoadMode \/ LoadLocal \/ ProductionChecks
    \/ LifePackr \/ LifeWatch \/ Close \/ Error

LifeSpec == LifeInit /\ [][LifeNext]_vars

----------------------------------------------------------------------------
(* Properties *)

Called(i) == ret[i].kind # "none"
Merged(i) == resolved[i].userConfig # NoValue
Resolved(i) == resolved[i].config # NoValue

\* A path that is the trusted root /p or lies beneath it: absolute, free of
\* "." and ".." segments, and with the root's segments as its first ones.
UnderRoot(p) ==
    /\ p.abs
    /\ \A n \in 1..Len(p.segs) : p.segs[n] \notin {Dot, DotDot}
    /\ Len(p.segs) >= 1
    /\ p.segs[1] = SegP

\* The base directory the claims give for an invocation's paths: the
\* directory of the config file when options.config was loaded, else the
\* working directory.
ExpectedBase(o) ==
    IF Truthy(o["config"])
    THEN PathDirname(PathResolve1(Cwd, o["config"].path))
    ELSE Abs(<<SegP>>)

\* What the config file contributes to an invocation
FileSeen(o) == IF Truthy(o["config"]) THEN configFile ELSE NoFileKeys

\* C1: a text setting whose PACKR_* variable is non-empty is resolved from
\* the variable (a path setting: from the variable's value resolved against
\* the base directory), whatever options and config file hold.
C1_EnvTextWins ==
    \A i \in Ids : \A f \in PathSettings \cup TextSettings :
        Truthy(env[EnvVarOf(f)]) =>
            /\ Merged(i) => Setting(resolved[i].userConfig, f) = env[EnvVarOf(f)]
            /\ Resolved(i) =>
                 Setting(resolved[i].config, f) =
                    IF f \in PathSettings
                    THEN PathText(PathResolve(Cwd, ExpectedBase(options[i]),
                                              env[EnvVarOf(f)].path))
                    ELSE env[EnvVarOf(f)]

C1_Witness ==
    /\ Resolved("first")
    /\ env["PACKR_SCSS_OUTPUT"] = PathText(TextDG)
    /\ options["first"]["scssOutput"] = PathText(TextCG)
    /\ configFile["scss_output"] = PathText(TextG)
    /\ Truthy(options["first"]["config"])
    /\ resolved["first"].config.scss_output = PathText(Abs(<<SegP, SegD, SegG>>))

\* C2: a boolean setting whose variable is exactly "true" is true, and one
\* whose variable is exactly "false" is false, whatever options and config
\* file hold.
C2_EnvBooleanDecides ==
    \A i \in Ids : \A f \in BoolSettings :
        Resolved(i) =>
            /\ env[EnvVarOf(f)] = Str("true") => Setting(resolved[i].config, f) = True
            /\ env[EnvVarOf(f)] = Str("false") => Setting(resolved[i].config, f) = False

\* The defaults of the settings (none for the paths)
DefaultOf(f) ==
    IF f \in {"minify", "minify_js", "minify_css", "uglify.mangle"} THEN True
    ELSE IF f \in BoolSettings THEN False
    ELSE IF f = "target" THEN Str("es2020")
    ELSE IF f = "format" THEN Str("iife")
    ELSE Undef

\* The environment variable of f decides f: non-empty for a text, exactly
\* "true" or "false" for a boolean.
EnvDecides(f) ==
    IF f \in BoolSettings THEN env[EnvVarOf(f)] \in {Str("true"), Str("false")}
    ELSE Truthy(env[EnvVarOf(f)])

\* A value is given: a boolean (false included) or a non-empty text.
Given(v) == v # Undef /\ (v.t = "string" => Truthy(v))

\* C3: a setting its variable does not decide takes the value given in
\* options, else the value of the config file, else its default.
C3_FallThroughOrder ==
    \A i \in Ids : \A f \in Settings \ {"uglify.reserved"} :
        (Resolved(i) /\ ~EnvDecides(f)) =>
            Setting(resolved[i].userConfig, f) =
                IF Given(options[i][OptionKeyOf(f)]) THEN options[i][OptionKeyOf(f)]
                ELSE IF Given(FileSeen(options[i])[f]) THEN FileSeen(options[i])[f]
                ELSE DefaultOf(f)

\* C4: called with the documented keys scss_input, scss_output, js_input and
\* js_output and no PACKR_* variable set, the four required settings take
\* those values and the validation of required settings does not fail.
C4_DocumentedKeysAccepted ==
    \A i \in Ids :
        ( /\ Merged(i)
          /\ \A v \in EnvVars : env[v] = Undef
          /\ \A k \in {"scss_input", "scss_output", "js_input", "js_output"} :
                Truthy(options[i][k]) ) =>
            /\ \A k \in {"scss_input", "scss_output", "js_input", "js_output"} :
                  Setting(resolved[i].userConfig, k) = options[i][k]
            /\ ~(ret[i].kind = "throw" /\ ret[i].error.kind = "MissingRequired")

\* C5: when a required setting is empty or absent after the merge, packr()
\* throws the missing-required error naming a setting that is missing, and
\* that invocation neither writes the artifact nor starts a worker.
C5_MissingRequiredAborts ==
    \A i \in Ids :
        ( /\ Merged(i)
          /\ \E n \in 1..Len(RequiredKeys) :
                ~Truthy(Setting(resolved[i].userConfig, RequiredKeys[n])) ) =>
            /\ ret[i].kind = "throw"
            /\ ret[i].error.kind = "MissingRequired"
            /\ \E n \in 1..Len(RequiredKeys) :
                  /\ ret[i].error.key = RequiredKeys[n]
                  /\ ~Truthy(Setting(resolved[i].userConfig, RequiredKeys[n]))
            /\ promise[i] = NoPromise
            /\ child[i] = NoChild
            /\ artifact.exists => artifact.writer # i
            /\ \A n \in 1..Len(trace[i]) : trace[i][n] \notin {"write", "spawn"}

C5_Witness ==
    /\ ret["first"].kind = "throw"
    /\ ret["first"].error = MissingRequiredError("js_input")
    /\ Truthy(resolved["first"].userConfig.scss_input)
    /\ artifact = NoFile

\* C6: resolveSafe returns the candidate's resolution against the base
\* directory when that is the trusted root or beneath it, and fails with the
\* unsafe-path error otherwise; it returns nothing outside the root and no
\* other in-root path in place of an escaping one.
C6_SandboxNeverEscapes ==
    fnResult # NoValue =>
        LET target == PathResolve(Cwd, fnArgs.baseDir, fnArgs.p) IN
        /\ fnResult.ok => (UnderRoot(fnResult.value) /\ fnResult.value = target)
        /\ ~UnderRoot(target) =>
              (~fnResult.ok /\ fnResult.error = UnsafePathError(fnArgs.p))

C6_Witness ==
    /\ fnResult # NoValue
    /\ fnArgs.p = Rel(<<DotDot, DotDot, SegD>>)
    /\ fnArgs.baseDir = Abs(<<SegP, SegC>>)
    /\ ~fnResult.ok

\* C7: every path setting of the resolved configuration that is given (the
\* four inputs and outputs, the two destinations, eslint_config) is the
\* sandbox's resolution of the merged value against the base directory, so
\* lies under the trusted root.
C7_AllPathsSandboxed ==
    \A i \in Ids : \A f \in PathSettings \cup {"eslint_config"} :
        (Resolved(i) /\ Truthy(Setting(resolved[i].userConfig, f))) =>
            /\ Setting(resolved[i].config, f) =
                  PathText(PathResolve(Cwd, ExpectedBase(options[i]),
                                       Setting(resolved[i].userConfig, f).path))
            /\ UnderRoot(Setting(resolved[i].config, f).path)

C9_MissingBinaryRejects ==
    \A i \in Ids :
        (Called(i) /\ ~binaryExists) =>
            /\ child[i] = NoChild
            /\ Resolved(i) =>
                  /\ ret[i].kind = "promise"
                  /\ promise[i].state = "rejected"
                  /\ promise[i].reason =
                        [kind |-> "BinaryNotFound",
                         path |-> Abs(<<SegM, SegBin,
                                        IF platform = "win32" THEN SegPackrExe
                                        ELSE SegPackr>>),
                         hint |-> "Please run 'npm run build' first."]

C9_Witness ==
    /\ platform = "win32"
    /\ ~binaryExists
    /\ Resolved("first")
    /\ promise["first"].state = "rejected"
    /\ promise["first"].reason.kind = "BinaryNotFound"

\* C10: a started worker's arguments are the absolute artifact path, then
\* --watch exactly when the invocation's options.watch is truthy, as it is
\* for every call through watch(); nothing else.
C10_WorkerArguments ==
    \A i \in Ids :
        child[i] # NoChild =>
            /\ Len(child[i].args) \in {1, 2}
            /\ child[i].args[1] = PathText(Abs(<<SegP, SegArtifact>>))
            /\ Len(child[i].args) = 2 <=> Truthy(options[i]["watch"])
            /\ Len(child[i].args) = 2 => child[i].args[2] = Str("--watch")
            /\ ret[i].entry = "watch" => Len(child[i].args) = 2

C10_Witness ==
    /\ child["first"] # NoChild
    /\ options["first"]["watch"] = False
    /\ Len(child["first"].args) = 1
    /\ child["second"] # NoChild
    /\ ret["second"].entry = "watch"
    /\ child["second"].args = <<PathText(Abs(<<SegP, SegArtifact>>)), Str("--watch")>>


\* C11: for the SCSS and the JS output alike, the path written to the
\* artifact is the sandbox-resolved output path when no destination is
\* given, and otherwise the destination resolved against the base directory
\* followed by the last segment of the output path (the output's own
\* directory is dropped).
C11_OutputNormalization ==
    \A i \in Ids :
        (Resolved(i) /\ artifact.exists /\ artifact.writer = i) =>
            \A pair \in { <<"scss_output", "css_destination">>,
                           <<"js_output", "js_destination">> } :
                LET out == Setting(resolved[i].config, pair[1]).path
                    dest == Setting(resolved[i].userConfig, pair[2])
                    final == artifact.content[pair[1]]
                IN IF ~Truthy(dest) THEN final = PathText(out)
                   ELSE final =
                          PathText(Abs(PathResolve(Cwd, ExpectedBase(options[i]),
                                                   dest.path).segs
                                       \o <<out.segs[Len(out.segs)]>>))

C11_Witness ==
    /\ artifact.exists
    /\ resolved["first"].config.scss_output = PathText(Abs(<<SegP, SegD, SegG>>))
    /\ resolved["first"].userConfig.css_destination = PathText(TextCG)
    /\ artifact.content.scss_output = PathText(Abs(<<SegP, SegC, SegG, SegG>>))
    /\ artifact.content.js_output = resolved["first"].config.js_output


\* The elements of a sequence
Range(seq) == { seq[n] : n \in DOMAIN seq }

\* The runtime mode of a run of loadEnvFiles(): nodeEnv once it is computed,
\* and before that what it will be computed from.
ModeOfRun == IF loader.nodeEnv = <<>> THEN NodeEnvOf(env) ELSE loader.nodeEnv

\* loadEnvFiles() has ended, by returning or by throwing
LoadEnded == loader.pc \in {"done", "failed"}

\* The lines of a file that define a key, and the keys they define
Defining(lines) ==
    { n \in DOMAIN lines : Trim(lines[n]) # <<>> /\ Head(Trim(lines[n])) # "#" }
KeyAt(lines, n) == Trim(SplitKey(Trim(lines[n])))
KeysOf(lines) == { KeyAt(lines, n) : n \in Defining(lines) }

\* The value of the first and of the last definition of a key in a file
FirstValueOf(lines, name) ==
    ParseValue(Trim(lines[CHOOSE n \in Defining(lines) :
        /\ KeyAt(lines, n) = name
        /\ \A m \in Defining(lines) : KeyAt(lines, m) = name => n <= m]))
LastValueOf(lines, name) ==
    ParseValue(Trim(lines[CHOOSE n \in Defining(lines) :
        /\ KeyAt(lines, n) = name
        /\ \A m \in Defining(lines) : KeyAt(lines, m) = name => m <= n]))

\* C12: once loadEnvFiles() has ended, every key the environment-specific
\* file .env-<mode> defines has the value that file gives it, whatever .env
\* and the process environment held.
C12_ModeFileValueStands ==
    (LoadEnded /\ TxtEnvDash \o ModeOfRun \in DOMAIN envFiles) =>
        \A name \in KeysOf(envFiles[TxtEnvDash \o ModeOfRun].lines) :
            /\ EnvHas(env, name)
            /\ env[name] = LastValueOf(envFiles[TxtEnvDash \o ModeOfRun].lines, name)

\* C13: after loadEnvFromFile('.env', false) every variable defined before
\* the call has the value it had, and a key the call defines has the value
\* of its first definition in the file; after loadEnvFromFile(file, true)
\* every key of the file has the value of its last definition.
C13_OverrideFlagRespected ==
    /\ loader.pc = "mode" =>
          /\ \A name \in DOMAIN fnArgs.env :
                EnvHas(env, name) /\ env[name] = fnArgs.env[name]
          /\ TxtEnvFile \in DOMAIN envFiles =>
                \A name \in KeysOf(envFiles[TxtEnvFile].lines) \ DOMAIN fnArgs.env :
                    env[name] = FirstValueOf(envFiles[TxtEnvFile].lines, name)
    /\ (loader.pc = "local" /\ TxtEnvDash \o loader.nodeEnv \in DOMAIN envFiles) =>
          \A name \in KeysOf(envFiles[TxtEnvDash \o loader.nodeEnv].lines) :
              env[name] = LastValueOf(envFiles[TxtEnvDash \o loader.nodeEnv].lines, name)

\* C14: in development mode with .env-local present, once .env-local has
\* been handled every key of it other than PACKR_SOURCEMAP has the value
\* .env-local gives it and PACKR_SOURCEMAP, if it was defined before, has
\* the value it had before; in no other mode is .env-local read.
C14_LocalOverridesExceptSourcemap ==
    /\ ( /\ loader.pc \in {"checks", "done", "failed"}
         /\ loader.nodeEnv = TxtDevelopment
         /\ TxtEnvLocal \in DOMAIN envFiles ) =>
            /\ \A name \in KeysOf(envFiles[TxtEnvLocal].lines) \ {NameSourcemap} :
                  /\ EnvHas(env, name)
                  /\ env[name] = LastValueOf(envFiles[TxtEnvLocal].lines, name)
            /\ loader.currentSourcemap.defined =>
                  /\ EnvHas(env, NameSourcemap)
                  /\ env[NameSourcemap] = loader.currentSourcemap.value
    /\ TxtEnvLocal \in Range(loader.read) => loader.nodeEnv = TxtDevelopment

\* C15: in production mode a file that is not owner-only makes loading
\* report a security warning and nothing more: loading never ends with the
\* permission error, and .env and .env-production, when they exist, are read.
C15_InsecureFileOnlyWarns ==
    (LoadEnded /\ ModeOfRun = TxtProduction) =>
        /\ loader.thrown.kind # "InsecurePermissions"
        /\ \A f \in {TxtEnvFile, TxtEnvDash \o TxtProduction} :
              f \in DOMAIN envFiles => f \in Range(loader.read)


\* The four variables production mode requires that are undefined or empty
RequiredUnset ==
    { k \in {NameScssInput, NameScssOutput, NameJsInput, NameJsOutput} :
        ~EnvHas(env, k) \/ env[k] = <<>> }

\* C16: in production mode, once the environment files are loaded, loading
\* fails with the error naming the missing variables exactly when one of the
\* four required variables is undefined or empty (so it neither succeeds nor
\* reaches the placeholder check then); in any other mode the files being
\* loaded, loading succeeds whatever is missing.
C16_RequiredVarsInProduction ==
    /\ (loader.pc = "done" /\ loader.nodeEnv = TxtProduction) => RequiredUnset = {}
    /\ loader.thrown.kind = "PlaceholderValues" => RequiredUnset = {}
    /\ loader.thrown.kind = "MissingEnvVars" =>
          /\ loader.pc = "failed"
          /\ loader.nodeEnv = TxtProduction
          /\ RequiredUnset # {}
          /\ Range(loader.thrown.missing) = RequiredUnset
    /\ (LoadEnded /\ loader.nodeEnv \notin {<<>>, TxtProduction}
        /\ loader.thrown.kind # "InsecurePermissions") => loader.pc = "done"

C16_Witness ==
    /\ loader.pc = "failed"
    /\ loader.nodeEnv = TxtProduction
    /\ loader.thrown = MissingVarsError(<<NameJsOutput>>)
    /\ EnvHas(env, NameJsOutput)
    /\ env[NameJsOutput] = <<>>
    /\ Len(loader.read) >= 1

\* A name that suggests a secret, a value that looks like a placeholder
SuggestsSecret(name) ==
    \E q \in { <<"k", "e", "y">>, <<"t", "o", "k", "e", "n">>, <<"s", "e", "c", "r", "e", "t">>,
              <<"p", "a", "s", "s", "w", "o", "r", "d">> } :
        Contains(LowerText(name), q)
LooksPlaceholder(value) ==
    \E q \in { <<"e", "x", "a", "m", "p", "l", "e">>, <<"t", "e", "s", "t">>,
              <<"d", "u", "m", "m", "y">> } :
        Contains(LowerText(value), q)

\* C17: when loading succeeds in production mode, no variable whose name
\* suggests a secret holds a value that looks like an example, test or dummy
\* value.
C17_NoPlaceholderSecretSurvives ==
    (loader.pc = "done" /\ loader.nodeEnv = TxtProduction) =>
        \A k \in DOMAIN env : ~(SuggestsSecret(k) /\ LooksPlaceholder(env[k]))


\* The worker of the CLI's invocation was started and exited with code 0
WorkerSucceeded ==
    /\ child["first"].state = "closed"
    /\ "error" \notin DOMAIN child["first"]
    /\ child["first"].code = Num(0)

\* C18: a run of the CLI entry that has ended has exit code 0 if a worker was
\* started and exited with code 0, and exit code 1 otherwise; it has ended
\* with 1 whenever the config file is missing or unreadable (packr() is not
\* called then) and whenever packr() threw (a missing required setting, a
\* path escape), and it does not end with 0 when the executable is missing,
\* the worker exits non-zero or cannot be spawned.
C18_CliExitCodes ==
    /\ cli.stage = "exited" =>
          /\ cli.exitCode \in {0, 1}
          /\ cli.exitCode = 0 <=> WorkerSucceeded
    /\ cli.stage \in {"waiting", "exited"} =>
          /\ ( \/ PathResolve1(Cwd, cli.configPath) \notin DOMAIN cli.disk
               \/ cli.disk[PathResolve1(Cwd, cli.configPath)] = JsonFile(Unparsable) ) =>
                (cli.stage = "exited" /\ cli.exitCode = 1 /\ ret["first"].kind = "none")
          /\ ret["first"].kind = "throw" => (cli.stage = "exited" /\ cli.exitCode = 1)
    /\ (cli.stage = "exited" /\ ret["first"].kind = "promise") =>
          /\ ~binaryExists => cli.exitCode = 1
          /\ "error" \in DOMAIN child["first"] => cli.exitCode = 1
          /\ (child["first"].state = "closed" /\ child["first"].code # Num(0)) =>
                cli.exitCode = 1

C18_Witness ==
    /\ cli.stage = "exited"
    /\ cli.exitCode = 0
    /\ cli.watchMode
    /\ WorkerSucceeded
    /\ Len(child["first"].args) = 2

\* The arguments that are not the flag --watch
Positionals(args) == SelectSeq(args, LAMBDA a : a # WatchFlag)

\* C19: the CLI reads the config file named by the positional argument, or
\* with no positional argument packr.json of the working directory if it
\* exists and else .packr.json; watch mode is on exactly when --watch is
\* among the arguments, with or without a positional argument.
C19_CliArguments ==
    cli.stage \in {"waiting", "exited"} =>
        LET pos == Positionals(cli.argv)
            conventional == IF Abs(<<SegP, SegJson>>) \in DOMAIN cli.disk
                            THEN Abs(<<SegP, SegJson>>) ELSE Abs(<<SegP, SegDotJson>>)
            given == IF pos = <<>> THEN conventional ELSE PathResolve1(Cwd, pos[1])
            expected == IF given \in DOMAIN cli.disk /\ cli.disk[given] = Directory
                        THEN Abs(given.segs \o <<SegDotJson>>) ELSE given
        IN /\ PathResolve1(Cwd, cli.configPath) = expected
           /\ cli.watchMode = (WatchFlag \in Range(cli.argv))
           /\ ret["first"].kind # "none" =>
                 options["first"]["watch"] = Bool(WatchFlag \in Range(cli.argv))


\* The settings of the resolved configuration that are not paths of the
\* four inputs and outputs or destinations
NonPathSettings ==
    { "minify", "minify_js", "minify_css", "uglify", "target", "verbose",
      "sourcemap", "format", "eslint", "eslint_config" }

\* C20: the artifact written by a successful resolution holds the sandboxed
\* scss_input and js_input, the normalized scss_output and js_output, and
\* every non-path setting of the resolved configuration that has a value
\* (minify, minify_js, minify_css, uglify, target, verbose, sourcemap,
\* format, eslint, eslint_config), whatever the file held before.
C20_ArtifactContent ==
    \A i \in Ids :
        (Resolved(i) /\ artifact.exists /\ artifact.writer = i) =>
            LET config == resolved[i].config
                base == ExpectedBase(options[i])
            IN /\ artifact.content.scss_input = config.scss_input
               /\ artifact.content.js_input = config.js_input
               /\ UnderRoot(artifact.content.scss_input.path)
               /\ UnderRoot(artifact.content.js_input.path)
               /\ artifact.content.scss_output =
                     joinOut(config.scss_output, config.css_destination, base)
               /\ artifact.content.js_output =
                     joinOut(config.js_output, config.js_destination, base)
               /\ \A k \in NonPathSettings :
                     config[k] # Undef =>
                        /\ k \in DOMAIN artifact.content
                        /\ artifact.content[k] = config[k]


\* How invocation i failed, if it did: the error packr() threw, or the
\* rejection it returned because the executable is missing
FailureOf(i) ==
    IF ret[i].kind = "throw" THEN ret[i].error
    ELSE IF promise[i].state = "rejected" /\ promise[i].reason.kind = "BinaryNotFound"
         THEN promise[i].reason
         ELSE NoError

ShowsLongRun(s) ==
    \E k \in 1..(Len(s) - MinRun + 1) :
        \A m \in k..(k + MinRun - 1) : IsAlnum(s[m])

\* A text shows a value after word (key=, token=, secret= in any case): the
\* word is followed by something that is neither the end of the value nor
\* the mask
ShowsValueAfter(s, word) ==
    \E k \in 1..(Len(s) - Len(word)) :
        /\ LowerText(SubSeq(s, k, k + Len(word) - 1)) = word
        /\ s[k + Len(word)] \notin {"&"} \cup RegexSpace
        /\ ~StartsWith(SubSeq(s, k + Len(word), Len(s)), TxtRedacted)

Scrubbed(s) ==
    /\ ~ShowsLongRun(s)
    /\ \A word \in {TxtKeyEq, TxtTokenEq, TxtSecretEq} : ~ShowsValueAfter(s, word)

\* C22: in production mode every text printed for an error, and the message
\* of the error that reaches the caller of packr(), shows no run of 32 or
\* more alphanumerics and no value after key=, token= or secret=.
C22_ErrorsScrubbedInProduction ==
    (InProduction(env) /\ fnResult # NoValue) =>
        /\ \A n \in 1..Len(fnResult.console) : Scrubbed(fnResult.console[n].text)
        /\ Scrubbed(fnResult.shown.message)


\* C23: resolveSafe accepts every path whose location is the trusted root or
\* lies beneath it, whatever its segments are called and however it was
\* written, and returns that location; an absolute normalized in-root path
\* comes back unchanged for every base directory, and so does the result
\* when it is resolved again.
C23_InRootAcceptedAndStable ==
    fnResult # NoValue =>
        LET at == PathResolve(Cwd, fnArgs.baseDir, fnArgs.p)
        IN /\ UnderRoot(at) => fnResult = Ok(at)
           /\ (fnArgs.p.abs /\ UnderRoot(fnArgs.p)) => fnResult = Ok(fnArgs.p)
           /\ fnResult.ok =>
                 \A b \in BaseDirs : resolveSafe(fnResult.value, b) = fnResult


\* C24: normalizing an already-normalized output path again, with the same
\* destination and base directory, yields the same path.
C24_NormalizationStable ==
    (fnResult # NoValue /\ "twice" \in DOMAIN fnResult) =>
        fnResult.twice = fnResult.once


\* The names a reserved source gives: the non-empty parts of a
\* comma-separated text, the non-empty items of a list
NamesOf(src) ==
    IF src.t = "array" THEN SelectSeq(src.items, LAMBDA n : n # "")
    ELSE SelectSeq(src.parts, LAMBDA n : n # "")

\* C25: resolution does not fail because of the form of the reserved
\* source, and the merged uglify.reserved is the list of non-empty names of
\* the first present source among PACKR_UGLIFY_RESERVED,
\* options.uglify.reserved and the config file's uglify.reserved, a string
\* or a list alike, and the empty list when none is present.
C25_ReservedNames ==
    \A i \in Ids :
        Called(i) =>
            LET ev == env["PACKR_UGLIFY_RESERVED"]
                ov == options[i]["uglify.reserved"]
                fv == FileSeen(options[i])["uglify.reserved"]
                expected == IF Truthy(ev) THEN NamesOf(ev)
                            ELSE IF Truthy(ov) THEN NamesOf(ov)
                            ELSE IF Truthy(fv) THEN NamesOf(fv)
                            ELSE <<>>
            IN /\ ret[i].kind = "throw" => ret[i].error # TypeError
               /\ Merged(i) =>
                     /\ resolved[i].userConfig.uglify.reserved = expected
                     /\ \A n \in 1..Len(expected) : expected[n] # ""


\* The formats of the PackrOptions type
Formats == {Str("iife"), Str("cjs"), Str("esm")}

\* C26: the format written to the artifact is one of iife, cjs and esm,
\* whatever PACKR_FORMAT, options.format and the config file's format hold.
C26_FormatEnumerated ==
    artifact.exists => artifact.content.format \in Formats


\* C27: once loadEnvFiles() has ended, nothing changes process.env or loads
\* an environment file again, and no environment file is read twice; an
\* invocation of packr() or watch() is made only after the loader has
\* finished and leaves process.env as it is, whatever its outcome; the worker
\* it starts receives the variables as they stand, with NODE_ENV production
\* when NODE_ENV is unset or empty.
C27_EnvLoadedOnceThenLeftAlone ==
    [][ /\ loader.pc \in {"done", "failed"} => (env' = env /\ loader' = loader)
        /\ (\E i \in Ids : ret'[i] # ret[i]) => (loader.pc = "done" /\ env' = env)
        /\ \A n, m \in 1..Len(loader'.read) :
              loader'.read[n] = loader'.read[m] => n = m
        /\ \A i \in Ids :
              (child[i].state = "none" /\ child'[i].state = "running") =>
                 /\ \A v \in EnvVars \ {"NODE_ENV"} : child'[i].env[v] = JsEnv(env)[v]
                 /\ child'[i].env["NODE_ENV"] =
                       IF EnvFalsy(env, NameNodeEnv) THEN Str("production")
                       ELSE JsString(env[NameNodeEnv])
      ]_vars

C27_Witness ==
    /\ loader.pc = "done"
    /\ Len(loader.read) >= 2
    /\ ~EnvHas(env, NameNodeEnv)
    /\ EnvHas(env, NameScssInput)
    /\ Called("first") /\ Called("second")
    /\ child["first"].state = "closed"
    /\ child["second"].state = "running"
    /\ child["second"].env["NODE_ENV"] = Str("production")
    /\ ret["second"].entry = "watch"

\* The artifact holds what invocation i resolved
OwnArtifact(i) ==
    /\ artifact.exists
    /\ Resolved(i)
    /\ artifact.content = ArtifactOf(resolved[i].config, resolved[i].configDir)

\* The worker of invocation i is running while the artifact holds something
\* else than what i resolved
ForeignArtifact(i) == child[i].state = "running" /\ ~OwnArtifact(i)

\* The outcome of invocation i is settled: packr() threw, or the promise it
\* returned was resolved or rejected
Settled(i) ==
    \/ ret[i].kind = "throw"
    \/ ret[i].kind = "promise" /\ promise[i].state # "pending"

\* C28: as long as every invocation starts only when each invocation made
\* before it has settled, no worker runs while the artifact holds another
\* configuration than its own: a step that is not a call, or that is a call
\* made when every earlier invocation has settled, never leads from a state
\* without such a worker to a state with one. (That overlapping invocations
\* do reach such a state is the witness.)
C28_SerializedReadsOwnArtifact ==
    [][ ( /\ \A i \in Ids : ~ForeignArtifact(i)
          /\ \A j \in Ids :
                (ret[j].kind = "none" /\ ret'[j].kind # "none") =>
                   \A k \in Ids \ {j} : Called(k) => Settled(k) )
        => \A i \in Ids : ~ForeignArtifact(i)'
      ]_vars

\* Two overlapping invocations with different configurations: the first
\* worker is still running and the artifact holds what the second resolved
C28_Witness ==
    /\ child["first"].state = "running"
    /\ promise["first"].state = "pending"
    /\ Resolved("second")
    /\ artifact.writer = "second"
    /\ OwnArtifact("second")
    /\ ForeignArtifact("first")

\* Two serialized invocations with different configurations: the second
\* worker runs on the artifact of its own invocation
C28_SerializedWitness ==
    /\ child["first"].state = "closed"
    /\ child["second"].state = "running"
    /\ OwnArtifact("second")
    /\ resolved["first"].config # resolved["second"].config

\* The steps of packr(), in the order of the code
AllSteps ==
    <<"load", "merge", "validate", "sandbox", "normalize", "write", "locate", "spawn">>

Did(i, step) == step \in Range(trace[i])

\* The keys of the object written to .packr-config.json
ArtifactKeys ==
    { "scss_input", "scss_output", "js_input", "js_output", "minify", "minify_js",
      "minify_css", "uglify", "target", "verbose", "sourcemap", "format" }

\* Invocation i failed: packr() threw, or the promise was rejected before a
\* worker was started
FailedEarly(i) ==
    \/ ret[i].kind = "throw"
    \/ ret[i].kind = "promise" /\ promise[i].state = "rejected" /\ child[i] = NoChild

\* What holds of invocation i in every state
RunInOrder(i) ==
    \* the steps ran in the order of the code, each at most once
    /\ Len(trace[i]) <= Len(AllSteps)
    /\ \A n \in 1..Len(trace[i]) : trace[i][n] = AllSteps[n]
    \* the artifact as i wrote it: after merge, validation and sandboxing,
    \* complete, with the four required paths non-empty and under the root
    /\ Did(i, "write") =>
          /\ Did(i, "merge") /\ Did(i, "validate") /\ Did(i, "sandbox")
          /\ Merged(i) /\ Resolved(i)
          /\ FirstMissing(resolved[i].userConfig) = 0
          /\ artifact.exists
    /\ (artifact.exists /\ artifact.writer = i) =>
          /\ Did(i, "write")
          /\ DOMAIN artifact.content = ArtifactKeys
          /\ artifact.content = ArtifactOf(resolved[i].config, resolved[i].configDir)
          /\ \A k \in {"scss_input", "scss_output", "js_input", "js_output"} :
                /\ Truthy(artifact.content[k])
                /\ UnderRoot(artifact.content[k].path)
    \* the worker: only after the artifact was written and the executable found
    /\ (child[i] # NoChild \/ Did(i, "spawn")) =>
          /\ child[i] # NoChild /\ Did(i, "spawn")
          /\ Did(i, "write") /\ Did(i, "locate")
          /\ binaryExists
          /\ ret[i].kind = "promise"
    \* a failure ends the run where it happened
    /\ FailedEarly(i) => (child[i] = NoChild /\ ~Did(i, "spawn"))
    /\ ret[i].kind = "throw" => ~Did(i, "write")
    /\ (Called(i) /\ ~Did(i, "write")) => ret[i].kind = "throw"
    /\ (Called(i) /\ Did(i, "write") /\ ~Did(i, "spawn")) =>
          (~binaryExists /\ promise[i].state = "rejected")

\* What holds of invocation i in every step
NothingTwice(i) ==
    \* once packr() has returned or thrown, none of its steps runs again
    /\ Called(i) =>
          /\ ret'[i] = ret[i]
          /\ trace'[i] = trace[i]
          /\ resolved'[i] = resolved[i]
          /\ (artifact' # artifact => artifact'.writer # i)
    \* the artifact is written by the call itself
    /\ (artifact' # artifact /\ artifact'.writer = i) => (~Called(i) /\ Did(i, "write")')
    \* a worker is started by the call itself, and never a second one
    /\ (child'[i].state = "running" /\ child[i].state # "running") =>
          (~Called(i) /\ child[i] = NoChild)
    /\ child[i] # NoChild =>
          /\ child'[i] # NoChild
          /\ child'[i].file = child[i].file
          /\ child'[i].args = child[i].args

\* C29: in every run of an invocation the steps happen in the order of the
\* code and each at most once; the artifact is written once, complete, after
\* merge, validation and sandboxing succeeded, and holds four non-empty
\* required paths under the trusted root; a worker is started once, after the
\* write and with the executable found; after a failure nothing runs again.
C29_InvocationSteps ==
    /\ [](\A i \in Ids : RunInOrder(i))
    /\ [][\A i \in Ids : NothingTwice(i)]_vars

\* One invocation went through every step and its worker ended; the other
\* stopped at the sandbox and left the artifact alone
C29_Witness ==
    /\ trace["first"] = AllSteps
    /\ child["first"].state = "closed"
    /\ artifact.exists /\ artifact.writer = "first"
    /\ trace["second"] = <<"load", "merge", "validate">>
    /\ ret["second"].kind = "throw"
    /\ ret["second"].error.kind = "UnsafePath"
    /\ child["second"] = NoChild

====
